---- MODULE Spec2Model ----
(***************************************************************************)
(* Model of Source/generateMoves.py: the generator of algebraic-notation   *)
(* moves and of the chess positions that realise them.                     *)
(*                                                                         *)
(* A square is a pair <<file, rank>> (both 0..7 when on the board); a      *)
(* square tagged with a directionId is a triple <<file, rank, id>>.  A     *)
(* Board is the code's list of lists: board[file + 1][rank + 1].  Python's *)
(* None is the empty tuple.  Strings that the code builds (notations,      *)
(* position strings) are sequences of one-character strings.               *)
(***************************************************************************)
EXTENDS Integers, Sequences, FiniteSets, TLC

\* Number of end squares (taken from EndSquareList) the generators are run for
NumEndSquares == 2

None == <<>>

----------------------------------------------------------------------------
(* Classes *)

Offset(file, rank) == <<file, rank>>

Square(file, rank) == <<file, rank>>

\* The square of a tagged square (Square.__eq__ ignores directionId)
Sq(t) == <<t[1], t[2]>>

Abs(x) == IF x < 0 THEN -x ELSE x

onBoard(square) ==
    /\ 0 <= square[1] /\ square[1] <= 7
    /\ 0 <= square[2] /\ square[2] <= 7

isAdjacent(self, other, dist) ==
    /\ Abs(self[1] - other[1]) <= dist
    /\ Abs(self[2] - other[2]) <= dist

SquareAdd(square, offset) == <<square[1] + offset[1], square[2] + offset[2]>>

SquareSub(square, offset) == <<square[1] - offset[1], square[2] - offset[2]>>

Board(initial) ==
    LET column == <<initial, initial, initial, initial, initial, initial, initial, initial>>
    IN  <<column, column, column, column, column, column, column, column>>

Get(board, square) == board[square[1] + 1][square[2] + 1]

Set(board, square, value) ==
    [board EXCEPT ![square[1] + 1][square[2] + 1] = value]

----------------------------------------------------------------------------
(* Constants *)

SQUARES == [i \in 1..64 |-> Square((i - 1) \div 8, (i - 1) % 8)]

PROMOTION == <<"R", "B", "Q", "N">>

FINAL_SYMBOL == << <<>>, <<"+">>, <<"#">> >>

PAWN_JUMPS == << Offset(1, 1), Offset(-1, 1) >>

KING_JUMPS ==
    << Offset(1, 1), Offset(1, 0), Offset(1, -1), Offset(0, 1),
       Offset(0, -1), Offset(-1, 1), Offset(-1, 0), Offset(-1, -1) >>

KNIGHT_JUMPS ==
    << Offset(1, 2), Offset(1, -2), Offset(-1, 2), Offset(-1, -2),
       Offset(2, 1), Offset(2, -1), Offset(-2, 1), Offset(-2, -1) >>

ROOK_DIRECTIONS == << Offset(1, 0), Offset(-1, 0), Offset(0, 1), Offset(0, -1) >>

BISHOP_DIRECTIONS == << Offset(1, 1), Offset(1, -1), Offset(-1, 1), Offset(-1, -1) >>

QUEEN_DIRECTIONS == ROOK_DIRECTIONS \o BISHOP_DIRECTIONS

----------------------------------------------------------------------------
(* Utils *)

\* sign that takes a negative number for zero
signNonNegative(x) == IF x > 0 THEN 1 ELSE 0

sign(x) == IF x > 0 THEN 1 ELSE IF x < 0 THEN -1 ELSE 0

\* The characters with the code points 32 to 126, in their order (the
\* quotation mark, the backslash and the grave accent, which no string of
\* the model holds, by name)
ASCII ==
    <<" ", "!", "chr(34)", "#", "$", "%", "&", "'", "(", ")", "*", "+", ",", "-", ".", "/",
      "0", "1", "2", "3", "4", "5", "6", "7", "8", "9", ":", ";", "<", "=", ">", "?", "@",
      "A", "B", "C", "D", "E", "F", "G", "H", "I", "J", "K", "L", "M",
      "N", "O", "P", "Q", "R", "S", "T", "U", "V", "W", "X", "Y", "Z",
      "[", "chr(92)", "]", "^", "_", "chr(96)",
      "a", "b", "c", "d", "e", "f", "g", "h", "i", "j", "k", "l", "m",
      "n", "o", "p", "q", "r", "s", "t", "u", "v", "w", "x", "y", "z",
      "{", "|", "}", "~">>

ord(c) == 31 + (CHOOSE k \in 1..Len(ASCII) : ASCII[k] = c)

chr(n) == ASCII[n - 31]

\* str.isupper, str.islower, str.isdigit, str.isalnum and str.swapcase of a
\* string of at most one character
isupper(c) == c # "" /\ ord(c) \in ord("A")..ord("Z")

islower(c) == c # "" /\ ord(c) \in ord("a")..ord("z")

isdigit(c) == c # "" /\ ord(c) \in ord("0")..ord("9")

isalnum(c) == isupper(c) \/ islower(c) \/ isdigit(c)

swapcase(c) ==
    IF isupper(c) THEN chr(ord(c) + 32) ELSE IF islower(c) THEN chr(ord(c) - 32) ELSE c

\* int and str, for the numbers of one digit
int(c) == ord(c) - ord("0")

str(n) == chr(ord("0") + n)

fileToStr(file) == chr(ord("a") + file)

rankToStr(rank) == str(1 + rank)

strToFile(fileStr) == ord(fileStr) - ord("a")

strToRank(rankStr) == int(rankStr) - 1

squareToStr(square) == <<fileToStr(square[1]), rankToStr(square[2])>>

strToSquare(squareStr) == Square(strToFile(squareStr[1]), strToRank(squareStr[2]))

\* flipFileRank that leaves the ranks as they are
flipFileRankFilesOnly(string, flipFiles, flipRanks) ==
    [k \in 1..Len(string) |->
        IF islower(string[k]) /\ flipFiles THEN fileToStr(7 - strToFile(string[k]))
        ELSE string[k]]

flipFileRank(string, flipFiles, flipRanks) ==
    [k \in 1..Len(string) |->
        IF islower(string[k]) /\ flipFiles THEN fileToStr(7 - strToFile(string[k]))
        ELSE IF isdigit(string[k]) /\ flipRanks THEN rankToStr(7 - strToRank(string[k]))
        ELSE string[k]]

\* The string after its first character (string[1:])
Rest(string) == SubSeq(string, 2, Len(string))

\* The number of characters at the start of string that satisfy Test
RECURSIVE leading(_, _, _)
leading(string, Test(_), k) ==
    IF k <= Len(string) /\ Test(string[k]) THEN leading(string, Test, k + 1) ELSE k - 1

\* Returns <<piece, disambiguation, capture, endSquare, rest>>
parseMove(move) ==
    LET piece == IF isupper(move[1]) THEN <<move[1]>> ELSE <<>>
        tail == IF isupper(move[1]) THEN Rest(move) ELSE move
        middle == SubSeq(tail, 1, leading(tail, isalnum, 1))
        isCapture(c) == c = "x"
        notCapture(c) == c # "x"
        capture == IF SelectSeq(middle, isCapture) # <<>> THEN <<"x">> ELSE <<>>
        coords == SelectSeq(middle, notCapture)
        disambiguation == SubSeq(coords, 1, Len(coords) - 2)
        endSquare == SubSeq(coords, IF Len(coords) > 2 THEN Len(coords) - 1 ELSE 1, Len(coords))
        rest == SubSeq(tail, Len(middle) + 1, Len(tail))
    IN  <<piece, disambiguation, capture, endSquare, rest>>

\* The concatenation of a sequence of strings or lists (of its two halves)
RECURSIVE Flatten(_)
Flatten(seqs) ==
    IF Len(seqs) = 0 THEN <<>>
    ELSE IF Len(seqs) = 1 THEN seqs[1]
    ELSE Flatten(SubSeq(seqs, 1, Len(seqs) \div 2))
         \o Flatten(SubSeq(seqs, (Len(seqs) \div 2) + 1, Len(seqs)))

\* "Append number of empty squares" at the end of a rank, without the number
endRankDropCount(emptySquares, rankStr) == rankStr

\* "Append number of empty squares" at the end of a rank
endRank(emptySquares, rankStr) ==
    IF emptySquares > 0 THEN rankStr \o <<str(emptySquares)>> ELSE rankStr

\* The loop through the files of one rank, in the order files: what the
\* pass for the k-th file appends to rankStr is the piece, after the number
\* of the empty squares since the piece before it; emptySquares is their
\* number after the last pass
rankToFen(chessboard, rank, files, swapPlayers) ==
    LET piece(k) == Get(chessboard, Square(files[k], rank))
        lastPiece(k) == CHOOSE p \in {0} \cup {q \in 1..(k - 1) : piece(q) # ""} :
                            \A q \in (p + 1)..(k - 1) : piece(q) = ""
        emptyBefore(k) == k - 1 - lastPiece(k)
        appended(k) ==
            IF piece(k) = "" THEN <<>>
            ELSE (IF emptyBefore(k) > 0 THEN <<str(emptyBefore(k))>> ELSE <<>>)
                 \o <<IF swapPlayers THEN swapcase(piece(k)) ELSE piece(k)>>
    IN  endRank(emptyBefore(9), Flatten([k \in 1..8 |-> appended(k)]))

\* "/".join(ranks) for the eight ranks
joinRanks(ranks) ==
    ranks[1] \o <<"/">> \o ranks[2] \o <<"/">> \o ranks[3] \o <<"/">> \o ranks[4] \o <<"/">>
    \o ranks[5] \o <<"/">> \o ranks[6] \o <<"/">> \o ranks[7] \o <<"/">> \o ranks[8]

chessboardToFen(chessboard, flipFiles, flipRanks, swapPlayers) ==
    LET rankOrder == IF ~flipRanks THEN <<7, 6, 5, 4, 3, 2, 1, 0>> ELSE <<0, 1, 2, 3, 4, 5, 6, 7>>
        fileOrder == IF ~flipFiles THEN <<0, 1, 2, 3, 4, 5, 6, 7>> ELSE <<7, 6, 5, 4, 3, 2, 1, 0>>
        ranks == [k \in 1..8 |-> rankToFen(chessboard, rankOrder[k], fileOrder, swapPlayers)]
        player == IF swapPlayers THEN "b" ELSE "w"
    IN  joinRanks(ranks) \o <<" ", player, " ", "-", " ", "-", " ", "0", " ", "1">>

\* string.split(sep) for a separator of one character
RECURSIVE split(_, _)
split(string, sep) ==
    LET notSep(c) == c # sep
        n == leading(string, notSep, 1)
    IN  IF n = Len(string) THEN <<string>>
        ELSE <<SubSeq(string, 1, n)>> \o split(SubSeq(string, n + 2, Len(string)), sep)

\* What indexing a list past its end raises
IndexError == <<"IndexError">>

\* The loop through the characters of one rank, from the k-th on
RECURSIVE rankFromFen(_, _, _, _, _)
rankFromFen(chessboard, rankStr, k, file, rank) ==
    IF k > Len(rankStr) THEN chessboard
    ELSE IF isdigit(rankStr[k])
    THEN rankFromFen(chessboard, rankStr, k + 1, file + int(rankStr[k]), rank)
    ELSE IF file > 7 THEN IndexError
    ELSE rankFromFen(Set(chessboard, Square(file, rank), rankStr[k]), rankStr, k + 1,
                     file + 1, rank)

\* The loop through the ranks from rank down to 0
RECURSIVE ranksFromFen(_, _, _)
ranksFromFen(chessboard, ranks, rank) ==
    IF rank < 0 \/ chessboard = IndexError THEN chessboard
    ELSE IF 8 - rank > Len(ranks) THEN IndexError
    ELSE ranksFromFen(rankFromFen(chessboard, ranks[8 - rank], 1, 0, rank), ranks, rank - 1)

\* Returns the board, or IndexError
fenToChessboard(fen) ==
    ranksFromFen(Board(""), split(split(fen, " ")[1], "/"), 7)

getEmptyMoveGroup == << <<None, None, None>>, <<None, None, None>> >>

\* isCheckmate that takes every square for boxed in by the move
isCheckmateAlways(squareKing, attackedSquares) == TRUE

isCheckmate(squareKing, attackedSquares) ==
    \A k \in 1..Len(KING_JUMPS) :
        LET adjacentSquare == SquareAdd(squareKing, KING_JUMPS[k])
        IN  onBoard(adjacentSquare) => Get(attackedSquares, adjacentSquare) # None

----------------------------------------------------------------------------
(* Piece movement *)

getStartSquaresJump(endSquare, jumps) ==
    LET tagged == [k \in 1..Len(jumps) |->
                      <<endSquare[1] - jumps[k][1], endSquare[2] - jumps[k][2], k - 1>>]
    IN  SelectSeq(tagged, onBoard)

\* The loop "while square.onBoard()" of one direction: the squares of the
\* ray from the end square against the direction
walkStartSquares(endSquare, direction, directionId) ==
    LET step(k) == <<endSquare[1] - k * direction[1], endSquare[2] - k * direction[2],
                     directionId>>
    IN  SelectSeq(<<step(1), step(2), step(3), step(4), step(5), step(6), step(7)>>, onBoard)

getStartSquaresDirection(endSquare, directions) ==
    Flatten([k \in 1..Len(directions) |-> walkStartSquares(endSquare, directions[k], k - 1)])

\* The marking functions return the assignments attackedSquares[square] =
\* value they make, in order, as a sequence of <<square, value>>;
\* getAttackedSquares applies them to a board of None
Mark(square, value) == <<square, value>>

\* markAttackedSquaresJump that marks every landing square with Square(-1, -1)
markAttackedSquaresJumpSentinel(startSquare, jumps) ==
    LET landsOnBoard(jump) == onBoard(SquareAdd(startSquare, jump))
        landing == SelectSeq(jumps, landsOnBoard)
    IN  [k \in 1..Len(landing) |-> Mark(SquareAdd(startSquare, landing[k]), Square(-1, -1))]

markAttackedSquaresJump(startSquare, jumps) ==
    LET landsOnBoard(jump) == onBoard(SquareAdd(startSquare, jump))
        landing == SelectSeq(jumps, landsOnBoard)
    IN  [k \in 1..Len(landing) |->
            LET endSquare == SquareAdd(startSquare, landing[k])
            IN  IF isAdjacent(endSquare, startSquare, 1)
                THEN Mark(endSquare, startSquare)
                ELSE Mark(endSquare, Square(-1, -1))]

\* The loop "while squareCurrent.onBoard()" along one direction: it marks
\* the squares of the ray up to the first one that holds a piece
walkAttack(chessboard, direction, square) ==
    LET step(k) == Square(square[1] + k * direction[1], square[2] + k * direction[2])
        ray == SelectSeq(<<step(1), step(2), step(3), step(4), step(5), step(6), step(7)>>,
                         onBoard)
        blocked == {k \in 1..Len(ray) : Get(chessboard, ray[k]) # ""}
        reach == IF blocked = {} THEN Len(ray)
                 ELSE CHOOSE k \in blocked : \A other \in blocked : k <= other
    IN  [k \in 1..reach |-> Mark(ray[k], step(k - 1))]

markAttackedSquaresDirection(square, chessboard, directions) ==
    Flatten([k \in 1..Len(directions) |-> walkAttack(chessboard, directions[k], square)])

\* markPiece that marks the attacks of the pieces of both sides
markPieceBothSides(chessboard, square) ==
    LET piece == Get(chessboard, square)
    IN  CASE piece \in {"P", "p"} -> markAttackedSquaresJump(square, PAWN_JUMPS)
          [] piece \in {"K", "k"} -> markAttackedSquaresJump(square, KING_JUMPS)
          [] piece \in {"N", "n"} -> markAttackedSquaresJump(square, KNIGHT_JUMPS)
          [] piece \in {"B", "b"} -> markAttackedSquaresDirection(square, chessboard, BISHOP_DIRECTIONS)
          [] piece \in {"R", "r"} -> markAttackedSquaresDirection(square, chessboard, ROOK_DIRECTIONS)
          [] piece \in {"Q", "q"} -> markAttackedSquaresDirection(square, chessboard, QUEEN_DIRECTIONS)
          [] OTHER -> <<>>

\* The marks of the piece on one square
markPiece(chessboard, square) ==
    LET piece == Get(chessboard, square)
    IN  CASE piece = "P" -> markAttackedSquaresJump(square, PAWN_JUMPS)
          [] piece = "K" -> markAttackedSquaresJump(square, KING_JUMPS)
          [] piece = "N" -> markAttackedSquaresJump(square, KNIGHT_JUMPS)
          [] piece = "B" -> markAttackedSquaresDirection(square, chessboard, BISHOP_DIRECTIONS)
          [] piece = "R" -> markAttackedSquaresDirection(square, chessboard, ROOK_DIRECTIONS)
          [] piece = "Q" -> markAttackedSquaresDirection(square, chessboard, QUEEN_DIRECTIONS)
          [] OTHER -> <<>>

\* The value a square holds after the assignments: that of the last one
LastMark(marks, square) ==
    LET onSquare(mark) == mark[1] = square
        made == SelectSeq(marks, onSquare)
    IN  IF Len(made) = 0 THEN None ELSE made[Len(made)][2]

\* The board that holds Value(square) on every square
BoardOf(Value(_)) ==
    LET column(f) == <<Value(Square(f, 0)), Value(Square(f, 1)), Value(Square(f, 2)),
                       Value(Square(f, 3)), Value(Square(f, 4)), Value(Square(f, 5)),
                       Value(Square(f, 6)), Value(Square(f, 7))>>
    IN  <<column(0), column(1), column(2), column(3), column(4), column(5), column(6),
          column(7)>>

\* The loop over SQUARES: the squares without a piece mark nothing
getAttackedSquares(chessboard) ==
    LET occupied(square) == Get(chessboard, square) # ""
        pieces == SelectSeq(SQUARES, occupied)
        marks == Flatten([i \in 1..Len(pieces) |-> markPiece(chessboard, pieces[i])])
        value(square) == LastMark(marks, square)
    IN  BoardOf(value)

----------------------------------------------------------------------------
(* Generate chessboards *)

InSeq(x, seq) == \E k \in 1..Len(seq) : seq[k] = x

\* The first element of a sequence of squares, None when it is empty: the
\* square at which a scan "for square in SQUARES" stops
First(squares) == IF Len(squares) = 0 THEN None ELSE squares[1]

\* whiteKingSquare without the test that keeps the kings apart
whiteKingSquareNextToKing(sq, keepFree, attackedSquaresAfter, squareBlackKing) ==
    /\ ~Get(keepFree, sq)
    /\ Get(attackedSquaresAfter, sq) = None

\* The tests of the scan of placeWhiteKing
whiteKingSquare(sq, keepFree, attackedSquaresAfter, squareBlackKing) ==
    /\ ~Get(keepFree, sq)
    /\ Get(attackedSquaresAfter, sq) = None
    /\ ~isAdjacent(sq, squareBlackKing, 2)

\* Returns [ok, chessboard]: whether the king was placed, and the board
placeWhiteKing(chessboard, keepFree, attackedSquaresAfter, squareBlackKing) ==
    LET test(sq) == whiteKingSquare(sq, keepFree, attackedSquaresAfter, squareBlackKing)
        found == First(SelectSeq(SQUARES, test))
    IN  IF found = None
        THEN [ok |-> FALSE, chessboard |-> chessboard]
        ELSE [ok |-> TRUE, chessboard |-> Set(chessboard, found, "K")]

\* placeRooks that leaves out the first rook
placeRooksButFirst(chessboardBefore, rookSquares, k) ==
    LET put(board, n) == IF n <= Len(rookSquares) THEN Set(board, rookSquares[n], "R")
                         ELSE board
    IN  put(put(put(chessboardBefore, 2), 3), 4)

RECURSIVE placeRooks(_, _, _)
placeRooks(chessboardBefore, rookSquares, k) ==
    IF k > Len(rookSquares) THEN chessboardBefore
    ELSE placeRooks(Set(chessboardBefore, rookSquares[k], "R"), rookSquares, k + 1)

\* boxInBlackKing that never exchanges the squares of the knight and the bishop
boxInBlackKingNoSwap(blackKingSquare, endSquare, chessboardBefore, chessboardAfter, attackedSquaresAfter) ==
    LET keepFreeForAttack == Get(attackedSquaresAfter, blackKingSquare)
        planned == SelectSeq([k \in 1..4 |-> SquareAdd(blackKingSquare, BISHOP_DIRECTIONS[k])],
                             onBoard)
        notKeepFreeForAttack(sq) == sq # keepFreeForAttack
        fileEdge == blackKingSquare[1] \in {0, 7}
        rankEdge == blackKingSquare[2] \in {0, 7}
        rookTooClose == /\ Get(chessboardAfter, endSquare) = "R"
                        /\ isAdjacent(endSquare, blackKingSquare, 1)
        failed == [ok |-> FALSE, chessboard |-> chessboardBefore]
        finish(board, rookSquares) ==
            [ok |-> TRUE,
             chessboard |-> Set(placeRooks(board, rookSquares, 1), blackKingSquare, "k")]
    IN  IF fileEdge /\ rankEdge
        THEN failed
        ELSE IF fileEdge \/ rankEdge
        THEN IF InSeq(keepFreeForAttack, planned)
             THEN IF /\ isupper(Get(chessboardAfter, keepFreeForAttack))
                     /\ Get(attackedSquaresAfter, keepFreeForAttack) = None
                  THEN failed
                  ELSE LET knight0 == Square(blackKingSquare[1], keepFreeForAttack[2])
                           bishop0 == Square(keepFreeForAttack[1], blackKingSquare[2])
                           swap == FALSE
                           knightSquare == IF swap THEN bishop0 ELSE knight0
                           bishopSquare == IF swap THEN knight0 ELSE bishop0
                       IN  finish(Set(Set(chessboardBefore, knightSquare, "N"),
                                      bishopSquare, "B"),
                                  SelectSeq(planned, notKeepFreeForAttack))
             ELSE IF rookTooClose THEN failed ELSE finish(chessboardBefore, planned)
        ELSE IF rookTooClose
             THEN failed
             ELSE IF InSeq(keepFreeForAttack, planned)
                  THEN finish(chessboardBefore,
                              SelectSeq(planned, notKeepFreeForAttack))
                  ELSE finish(chessboardBefore, SubSeq(planned, 1, Len(planned) - 1))

\* Returns [ok, chessboard]: the result and chessboardBefore as the call leaves it
boxInBlackKing(blackKingSquare, endSquare, chessboardBefore, chessboardAfter, attackedSquaresAfter) ==
    LET keepFreeForAttack == Get(attackedSquaresAfter, blackKingSquare)
        planned == SelectSeq([k \in 1..4 |-> SquareAdd(blackKingSquare, BISHOP_DIRECTIONS[k])],
                             onBoard)
        notKeepFreeForAttack(sq) == sq # keepFreeForAttack
        fileEdge == blackKingSquare[1] \in {0, 7}
        rankEdge == blackKingSquare[2] \in {0, 7}
        rookTooClose == /\ Get(chessboardAfter, endSquare) = "R"
                        /\ isAdjacent(endSquare, blackKingSquare, 1)
        failed == [ok |-> FALSE, chessboard |-> chessboardBefore]
        finish(board, rookSquares) ==
            [ok |-> TRUE,
             chessboard |-> Set(placeRooks(board, rookSquares, 1), blackKingSquare, "k")]
    IN  IF fileEdge /\ rankEdge
        THEN failed
        ELSE IF fileEdge \/ rankEdge
        THEN IF InSeq(keepFreeForAttack, planned)
             THEN IF /\ isupper(Get(chessboardAfter, keepFreeForAttack))
                     /\ Get(attackedSquaresAfter, keepFreeForAttack) = None
                  THEN failed
                  ELSE LET knight0 == Square(blackKingSquare[1], keepFreeForAttack[2])
                           bishop0 == Square(keepFreeForAttack[1], blackKingSquare[2])
                           swap == bishop0[1] \in {0, 7} \/ bishop0[2] \in {0, 7}
                           knightSquare == IF swap THEN bishop0 ELSE knight0
                           bishopSquare == IF swap THEN knight0 ELSE bishop0
                       IN  finish(Set(Set(chessboardBefore, knightSquare, "N"),
                                      bishopSquare, "B"),
                                  SelectSeq(planned, notKeepFreeForAttack))
             ELSE IF rookTooClose THEN failed ELSE finish(chessboardBefore, planned)
        ELSE IF rookTooClose
             THEN failed
             ELSE IF InSeq(keepFreeForAttack, planned)
                  THEN finish(chessboardBefore,
                              SelectSeq(planned, notKeepFreeForAttack))
                  ELSE finish(chessboardBefore, SubSeq(planned, 1, Len(planned) - 1))

\* noCheckSquare without the test that the square is not attacked after
\* the move
noCheckSquareBeforeOnly(sq, endSquare, keepFree, hasWhiteKing, attackedSquaresBefore, attackedSquaresAfter) ==
    /\ ~Get(keepFree, sq)
    /\ Get(attackedSquaresBefore, sq) = None
    /\ ~(hasWhiteKing /\ isAdjacent(sq, endSquare, 1))

\* The tests of the scan of placeKingsNoCheck
noCheckSquare(sq, endSquare, keepFree, hasWhiteKing, attackedSquaresBefore, attackedSquaresAfter) ==
    /\ ~Get(keepFree, sq)
    /\ Get(attackedSquaresBefore, sq) = None
    /\ Get(attackedSquaresAfter, sq) = None
    /\ ~(hasWhiteKing /\ isAdjacent(sq, endSquare, 1))

\* The chessboard a place function returns when placeWhiteKing has run
chessboardIfPlaced(placed) == IF placed.ok THEN placed.chessboard ELSE None

\* The kings' part shared by the three place functions: given the square
\* found for the black king (None when none) and the board holding it
placeRemainingKing(squareBlackKing, chessboard, keepFree, attackedSquaresAfter, hasWhiteKing) ==
    IF squareBlackKing = None THEN None
    ELSE IF ~hasWhiteKing
    THEN chessboardIfPlaced(placeWhiteKing(chessboard, keepFree, attackedSquaresAfter,
                                           squareBlackKing))
    ELSE chessboard

\* "Place black king" on the square a scan stopped at, and the rest of the
\* place function
placeBlackKing(squareBlackKing, chessboardBefore, keepFree, attackedSquaresAfter, hasWhiteKing) ==
    IF squareBlackKing = None THEN None
    ELSE placeRemainingKing(squareBlackKing, Set(chessboardBefore, squareBlackKing, "k"),
                            keepFree, attackedSquaresAfter, hasWhiteKing)

\* placeKingsNoCheck from its scan on, with the boards of attacked squares
scanNoCheck(endSquare, chessboardBefore, keepFree, hasWhiteKing, attackedSquaresBefore, attackedSquaresAfter) ==
    LET test(sq) == noCheckSquare(sq, endSquare, keepFree, hasWhiteKing,
                                  attackedSquaresBefore, attackedSquaresAfter)
    IN  placeBlackKing(First(SelectSeq(SQUARES, test)), chessboardBefore, keepFree,
                       attackedSquaresAfter, hasWhiteKing)

placeKingsNoCheck(endSquare, chessboardBefore, chessboardAfter, keepFree, hasWhiteKing) ==
    scanNoCheck(endSquare, chessboardBefore, keepFree, hasWhiteKing,
                getAttackedSquares(chessboardBefore), getAttackedSquares(chessboardAfter))

\* The tests common to the scans for check and checkmate
\* kingSquareCandidate without the test "Black king can't be adjacent to
\* white king"
kingSquareCandidateAnyKing(sq, endSquare, keepFree, hasWhiteKing, attackedSquaresBefore, attackedSquaresAfter) ==
    /\ ~Get(keepFree, sq)
    /\ Get(attackedSquaresBefore, sq) = None
    /\ Get(attackedSquaresAfter, sq) # None

kingSquareCandidate(sq, endSquare, keepFree, hasWhiteKing, attackedSquaresBefore, attackedSquaresAfter) ==
    /\ ~Get(keepFree, sq)
    /\ Get(attackedSquaresBefore, sq) = None
    /\ Get(attackedSquaresAfter, sq) # None
    /\ ~(hasWhiteKing /\ isAdjacent(sq, endSquare, 1))

\* placeKingsCheck from its scan on, with the boards of attacked squares
scanCheck(endSquare, chessboardBefore, keepFree, hasWhiteKing, attackedSquaresBefore, attackedSquaresAfter) ==
    LET test(sq) == /\ kingSquareCandidate(sq, endSquare, keepFree, hasWhiteKing,
                                            attackedSquaresBefore, attackedSquaresAfter)
                    /\ ~isCheckmate(sq, attackedSquaresAfter)
    IN  placeBlackKing(First(SelectSeq(SQUARES, test)), chessboardBefore, keepFree,
                       attackedSquaresAfter, hasWhiteKing)

placeKingsCheck(endSquare, chessboardBefore, chessboardAfter, keepFree, hasWhiteKing) ==
    scanCheck(endSquare, chessboardBefore, keepFree, hasWhiteKing,
              getAttackedSquares(chessboardBefore), getAttackedSquares(chessboardAfter))

\* adjacentAllPlacable that tests the king's square in place of the squares
\* adjacent to it
adjacentAllPlacableOwnSquare(sq, keepFree, keepFreeForAttack) == ~Get(keepFree, sq)

\* Whether pieces can be placed on all squares adjacent to square, except
\* for the square that has to be kept free for the attack
adjacentAllPlacable(sq, keepFree, keepFreeForAttack) ==
    \A k \in 1..Len(KING_JUMPS) :
        LET adjacentSquare == SquareAdd(sq, KING_JUMPS[k])
        IN  (onBoard(adjacentSquare) /\ adjacentSquare # keepFreeForAttack)
                => ~Get(keepFree, adjacentSquare)

\* boxedSquare for a boxInBlackKing that places the defending king before
\* it returns False
boxedSquareKingLeft(sq, boxed) ==
    [square |-> IF boxed.ok THEN sq ELSE None, chessboard |-> Set(boxed.chessboard, sq, "k")]

\* "Place white piece around black king": the pass stops at the square when
\* boxInBlackKing has placed the pieces
boxedSquare(sq, boxed) == [square |-> IF boxed.ok THEN sq ELSE None, chessboard |-> boxed.chessboard]

\* One pass of the scan of placeKingsCheckmate, for a square that passed
\* its first four tests.  Returns [square, chessboard]: the black king's
\* square (None when the pass goes on to the next square) and
\* chessboardBefore as the pass leaves it
checkmateSquare(sq, endSquare, chessboardBefore, chessboardAfter, keepFree, attackedSquaresAfter) ==
    IF isCheckmate(sq, attackedSquaresAfter)
    THEN [square |-> sq, chessboard |-> Set(chessboardBefore, sq, "k")]
    ELSE IF adjacentAllPlacable(sq, keepFree, Get(attackedSquaresAfter, sq))
    THEN boxedSquare(sq, boxInBlackKing(sq, endSquare, chessboardBefore, chessboardAfter,
                                        attackedSquaresAfter))
    ELSE [square |-> None, chessboard |-> chessboardBefore]

\* The scan over candidates[lo..hi], in order, each pass starting from the
\* board the pass before it left; it stops at the first square found.  The
\* range is scanned in two halves, one after the other
RECURSIVE scanCheckmate(_, _, _, _, _, _, _, _)
scanCheckmate(candidates, lo, hi, endSquare, chessboardBefore, chessboardAfter, keepFree, attackedSquaresAfter) ==
    IF lo > hi THEN [square |-> None, chessboard |-> chessboardBefore]
    ELSE IF lo = hi
    THEN checkmateSquare(candidates[lo], endSquare, chessboardBefore, chessboardAfter,
                         keepFree, attackedSquaresAfter)
    ELSE LET mid == (lo + hi) \div 2
             first == scanCheckmate(candidates, lo, mid, endSquare, chessboardBefore,
                                    chessboardAfter, keepFree, attackedSquaresAfter)
         IN  IF first.square # None THEN first
             ELSE scanCheckmate(candidates, mid + 1, hi, endSquare, first.chessboard,
                                chessboardAfter, keepFree, attackedSquaresAfter)

\* The rest of placeKingsCheckmate after its scan
placeFound(found, keepFree, attackedSquaresAfter, hasWhiteKing) ==
    placeRemainingKing(found.square, found.chessboard, keepFree, attackedSquaresAfter,
                       hasWhiteKing)

\* The scan of placeKingsCheckmate over the squares that pass its first
\* four tests, and the rest of the function
scanCandidates(candidates, endSquare, chessboardBefore, chessboardAfter, keepFree, hasWhiteKing, attackedSquaresAfter) ==
    placeFound(scanCheckmate(candidates, 1, Len(candidates), endSquare, chessboardBefore,
                             chessboardAfter, keepFree, attackedSquaresAfter),
               keepFree, attackedSquaresAfter, hasWhiteKing)

\* placeKingsCheckmate from its scan on, with the boards of attacked squares
scanForCheckmate(endSquare, chessboardBefore, chessboardAfter, keepFree, hasWhiteKing, attackedSquaresBefore, attackedSquaresAfter) ==
    LET test(sq) == kingSquareCandidate(sq, endSquare, keepFree, hasWhiteKing,
                                        attackedSquaresBefore, attackedSquaresAfter)
    IN  scanCandidates(SelectSeq(SQUARES, test), endSquare, chessboardBefore,
                       chessboardAfter, keepFree, hasWhiteKing, attackedSquaresAfter)

placeKingsCheckmate(endSquare, chessboardBefore, chessboardAfter, keepFree, hasWhiteKing) ==
    scanForCheckmate(endSquare, chessboardBefore, chessboardAfter, keepFree, hasWhiteKing,
                     getAttackedSquares(chessboardBefore),
                     getAttackedSquares(chessboardAfter))

\* The squares tried for a discovered attacker, in the order of the two
\* nested loops: <<pieceDiscovered, offset>>
DISCOVERED_ATTACKERS ==
    [k \in 1..4 |-> <<"R", ROOK_DIRECTIONS[k]>>] \o [k \in 1..4 |-> <<"B", BISHOP_DIRECTIONS[k]>>]

\* The state of the loops of updateMoveGroupCapture: the three slots, and
\* for the verification which slots this call filled (filled) and the
\* discovered attacker <<piece, square>> on the board when it did (None: none)
CaptureState(moveGroupCapture) ==
    [slots |-> moveGroupCapture,
     filled |-> <<FALSE, FALSE, FALSE>>,
     discovered |-> <<None, None, None>>]

\* One slot assignment: moveGroupCapture[j] = chessboard
FillSlot(state, j, chessboard, attacker) ==
    [slots |-> [state.slots EXCEPT ![j] = chessboard],
     filled |-> [state.filled EXCEPT ![j] = (chessboard # None)],
     discovered |-> [state.discovered EXCEPT
                        ![j] = IF chessboard # None THEN attacker ELSE None]]

\* The first loop: for i in range(3): if not moveGroupCapture[i]: ...
PlaceFunction(j, endSquare, chessboardBefore, chessboardAfter, keepFree, hasWhiteKing) ==
    CASE j = 1 -> placeKingsNoCheck(endSquare, chessboardBefore, chessboardAfter, keepFree, hasWhiteKing)
      [] j = 2 -> placeKingsCheck(endSquare, chessboardBefore, chessboardAfter, keepFree, hasWhiteKing)
      [] j = 3 -> placeKingsCheckmate(endSquare, chessboardBefore, chessboardAfter, keepFree, hasWhiteKing)

\* placeOrKeep without the test "if not moveGroupCapture[i]"
placeAlways(state, j, endSquare, chessboardBefore, chessboardAfter, keepFree, hasWhiteKing) ==
    FillSlot(state, j, PlaceFunction(j, endSquare, chessboardBefore, chessboardAfter, keepFree, hasWhiteKing), None)

\* One pass of the first loop
placeOrKeep(state, j, endSquare, chessboardBefore, chessboardAfter, keepFree, hasWhiteKing) ==
    IF state.slots[j] = None
    THEN FillSlot(state, j,
             PlaceFunction(j, endSquare, chessboardBefore, chessboardAfter, keepFree,
                           hasWhiteKing), None)
    ELSE state

\* The passes of the first loop from the j-th on
RECURSIVE placeFrom(_, _, _, _, _, _, _)
placeFrom(state, j, endSquare, chessboardBefore, chessboardAfter, keepFree, hasWhiteKing) ==
    IF j > 3 THEN state
    ELSE placeFrom(placeOrKeep(state, j, endSquare, chessboardBefore, chessboardAfter,
                               keepFree, hasWhiteKing),
                   j + 1, endSquare, chessboardBefore, chessboardAfter, keepFree,
                   hasWhiteKing)

\* The first loop of updateMoveGroupCapture
placeAll(moveGroupCapture, endSquare, chessboardBefore, chessboardAfter, keepFree, hasWhiteKing) ==
    placeFrom(CaptureState(moveGroupCapture), 1, endSquare, chessboardBefore,
              chessboardAfter, keepFree, hasWhiteKing)

\* The generation of check and checkmate with the discovered attacker on
\* the boards (before, after, keep)
fillCheckmate(state, attacker, endSquare, before, after, keep, hasWhiteKing) ==
    IF state.slots[3] = None
    THEN FillSlot(state, 3, placeKingsCheckmate(endSquare, before, after, keep, hasWhiteKing),
                  attacker)
    ELSE state

fillCheck(state, attacker, endSquare, before, after, keep, hasWhiteKing) ==
    IF state.slots[2] = None
    THEN FillSlot(state, 2, placeKingsCheck(endSquare, before, after, keep, hasWhiteKing),
                  attacker)
    ELSE state

\* skipDiscovered without the test "Square must be kept free for move"
skipDiscoveredOffBoardOnly(moveGroupCapture, piece, pieceDiscovered, squareAttacker, keepFree) ==
    \/ piece \in {"Q", pieceDiscovered}
    \/ ~onBoard(squareAttacker)
    \/ (moveGroupCapture[2] # None /\ moveGroupCapture[3] # None)

\* Whether the pass for the discovered attacker on squareAttacker is left
\* out: by "continue", by "break" (no later pass of the loop does anything)
skipDiscovered(moveGroupCapture, piece, pieceDiscovered, squareAttacker, keepFree) ==
    \/ piece \in {"Q", pieceDiscovered}
    \/ ~onBoard(squareAttacker)
    \/ (moveGroupCapture[2] # None /\ moveGroupCapture[3] # None)
    \/ Get(keepFree, squareAttacker)

\* One pass of the inner loop with the discovered attacker placed
tryDiscovered(moveGroupCapture, pieceDiscovered, squareAttacker, endSquare, chessboardBefore, chessboardAfter, keepFree, hasWhiteKing) ==
    fillCheckmate(
        fillCheck(CaptureState(moveGroupCapture), <<pieceDiscovered, squareAttacker>>,
                  endSquare, chessboardBefore, chessboardAfter, keepFree, hasWhiteKing),
        <<pieceDiscovered, squareAttacker>>, endSquare, chessboardBefore, chessboardAfter,
        keepFree, hasWhiteKing)

\* The walk "while square != endSquare" that marks a piece's line of attack
RECURSIVE markLine(_, _, _, _)
markLine(keepFree, square, direction, endSquare) ==
    IF square = endSquare THEN keepFree
    ELSE markLine(Set(keepFree, square, TRUE), SquareAdd(square, direction),
                  direction, endSquare)

\* Returns [chessboardBefore, keepFree] after the loop over the pieces
RECURSIVE placePieces(_, _, _, _, _, _)
placePieces(chessboardBefore, keepFree, piece, squares, k, endSquare) ==
    IF k > Len(squares)
    THEN [chessboardBefore |-> chessboardBefore, keepFree |-> keepFree]
    ELSE LET square == squares[k]
             direction == Offset(sign(endSquare[1] - square[1]),
                                 sign(endSquare[2] - square[2]))
             marked == IF piece = "N"
                       THEN Set(keepFree, square, TRUE)
                       ELSE markLine(keepFree, square, direction, endSquare)
         IN  placePieces(Set(chessboardBefore, square, piece),
                         Set(marked, endSquare, TRUE),
                         piece, squares, k + 1, endSquare)

alreadyFull(moveGroup) == \A i \in 1..2 : \A j \in 1..3 : moveGroup[i][j] # None

----------------------------------------------------------------------------
(* Generate SAN moves: the classifier of getMovesDisambiguation *)

\* One call of updateMoveGroup made by a generator: the move group it
\* updates (kind and key) and the arguments
Call(kind, key, startSquare, endSquare, otherSquares, promotePiece) ==
    [kind |-> kind, key |-> key, startSquare |-> startSquare, endSquare |-> endSquare,
     otherSquares |-> otherSquares, promotePiece |-> promotePiece]

SquareKey(square) == square[1] * 8 + square[2]

\* permutations(range(n), 2) and permutations(range(n), 3), in itertools' order
Distinct2(p) == p[1] # p[2]

Distinct3(p) == p[1] # p[2] /\ p[1] # p[3] /\ p[2] # p[3]

Permutations2(n) ==
    SelectSeq([k \in 1..(n * n) |-> <<((k - 1) \div n) + 1, ((k - 1) % n) + 1>>],
              Distinct2)

Permutations3(n) ==
    SelectSeq([k \in 1..(n * n * n) |->
                  <<((k - 1) \div (n * n)) + 1, (((k - 1) \div n) % n) + 1, ((k - 1) % n) + 1>>],
              Distinct3)

\* sameDirection that finds no two pieces on one path
sameDirectionNever(startSquare, otherSquare) == FALSE

\* "Pieces block each other's path" for two pieces
sameDirection(startSquare, otherSquare) == startSquare[3] = otherSquare[3]

\* The tests of the loop over three pieces
squareDisambiguation(startSquare, otherSquare1, otherSquare2) ==
    /\ startSquare[1] = otherSquare1[1] /\ startSquare[2] = otherSquare2[2]
    /\ Cardinality({startSquare[3], otherSquare1[3], otherSquare2[3]}) >= 3

onePieceCalls(endSquare, startSquares) ==
    [k \in 1..Len(startSquares) |->
        Call("plain", 0, Sq(startSquares[k]), endSquare, <<>>, "")]

\* twoPiecesCalls with the rank move and the file move exchanged
twoPiecesCallsExchanged(endSquare, startSquares) ==
    LET test(p) == ~sameDirection(startSquares[p[1]], startSquares[p[2]])
        pairs == SelectSeq(Permutations2(Len(startSquares)), test)
    IN  [k \in 1..Len(pairs) |->
            LET startSquare == startSquares[pairs[k][1]]
                otherSquare == startSquares[pairs[k][2]]
            IN  IF startSquare[1] # otherSquare[1]
                THEN Call("rank", startSquare[2], Sq(startSquare), endSquare,
                          <<Sq(otherSquare)>>, "")
                ELSE Call("file", startSquare[1], Sq(startSquare), endSquare,
                          <<Sq(otherSquare)>>, "")]

\* twoPiecesCalls that sends every pair to the file group of its start square
twoPiecesCallsFileOnly(endSquare, startSquares) ==
    LET test(p) == ~sameDirection(startSquares[p[1]], startSquares[p[2]])
        pairs == SelectSeq(Permutations2(Len(startSquares)), test)
    IN  [k \in 1..Len(pairs) |->
            Call("file", startSquares[pairs[k][1]][1], Sq(startSquares[pairs[k][1]]),
                 endSquare, <<Sq(startSquares[pairs[k][2]])>>, "")]

twoPiecesCalls(endSquare, startSquares) ==
    LET test(p) == ~sameDirection(startSquares[p[1]], startSquares[p[2]])
        pairs == SelectSeq(Permutations2(Len(startSquares)), test)
    IN  [k \in 1..Len(pairs) |->
            LET startSquare == startSquares[pairs[k][1]]
                otherSquare == startSquares[pairs[k][2]]
            IN  IF startSquare[1] = otherSquare[1]
                THEN Call("rank", startSquare[2], Sq(startSquare), endSquare,
                          <<Sq(otherSquare)>>, "")
                ELSE Call("file", startSquare[1], Sq(startSquare), endSquare,
                          <<Sq(otherSquare)>>, "")]

threePiecesCalls(endSquare, startSquares) ==
    LET test(p) == squareDisambiguation(startSquares[p[1]], startSquares[p[2]],
                                        startSquares[p[3]])
        triples == SelectSeq(Permutations3(Len(startSquares)), test)
    IN  [k \in 1..Len(triples) |->
            Call("square", SquareKey(startSquares[triples[k][1]]),
                 Sq(startSquares[triples[k][1]]), endSquare,
                 <<Sq(startSquares[triples[k][2]]), Sq(startSquares[triples[k][3]])>>, "")]

\* The calls of getMovesDisambiguation, in the order of its three loops
disambiguationCalls(endSquare, startSquares) ==
    onePieceCalls(endSquare, startSquares)
    \o twoPiecesCalls(endSquare, startSquares)
    \o threePiecesCalls(endSquare, startSquares)

\* moveGroupPlain, moveGroupFile, moveGroupRank, moveGroupSquare
DisambiguationGroups ==
    {<<"king", 0>>, <<"plain", 0>>} \cup {<<"file", f>> : f \in 0..7} \cup {<<"rank", r>> : r \in 0..7}
    \cup {<<"square", SquareKey(SQUARES[i])>> : i \in 1..64}

isJump(piece) == piece \in {"K", "N"}

movement(piece) ==
    CASE piece = "K" -> KING_JUMPS
      [] piece = "N" -> KNIGHT_JUMPS
      [] piece = "R" -> ROOK_DIRECTIONS
      [] piece = "B" -> BISHOP_DIRECTIONS
      [] piece = "Q" -> QUEEN_DIRECTIONS

\* The start squares getMovesPieceSan computes for an end square
getStartSquares(piece, endSquare) ==
    IF isJump(piece)
    THEN getStartSquaresJump(endSquare, movement(piece))
    ELSE getStartSquaresDirection(endSquare, movement(piece))

\* The calls of getMovesKingSan for one end square: one move group
kingSanCalls(endSquare) ==
    LET startSquares == getStartSquaresJump(endSquare, KING_JUMPS)
    IN  [k \in 1..Len(startSquares) |->
            Call("king", 0, Sq(startSquares[k]), endSquare, <<>>, "")]

----------------------------------------------------------------------------
(* Statistics and the move list *)

\* Stats(): the boards of booleans squareMove and reachable as the sets of
\* the squares that hold True
Stats ==
    [plainMove |-> FALSE,
     fileMove |-> <<FALSE, FALSE, FALSE, FALSE, FALSE, FALSE, FALSE, FALSE>>,
     rankMove |-> <<FALSE, FALSE, FALSE, FALSE, FALSE, FALSE, FALSE, FALSE>>,
     squareMove |-> {},
     reachable |-> {},
     missingMoves |-> [checkmate |-> <<>>, check |-> <<>>, both |-> <<>>],
     finalSymbol |-> <<0, 0, 0>>]

\* "If move is possible": the pair (move, fen), None for an empty fen
possibleMove(move, fen) == IF fen # <<>> THEN <<move, fen>> ELSE None

\* One pass of the loops of insertMoves: the pair (move, fen), None when
\* the move is not possible; manualMoves is MANUAL_MOVES
moveFen(moveStart, moveEnd, moveGroup, flipForPawn, manualMoves, i, j) ==
    LET move == moveStart \o (IF i = 1 THEN <<>> ELSE <<"x">>) \o moveEnd \o FINAL_SYMBOL[j]
    IN  possibleMove(move,
                     IF moveGroup[i][j] # None
                     THEN chessboardToFen(moveGroup[i][j], FALSE, flipForPawn, flipForPawn)
                     ELSE IF move \in DOMAIN manualMoves THEN manualMoves[move]
                     ELSE <<>>)

\* addMissing that takes the missing check for the missing checkmate
addMissingExchanged(missingMoves, moveFens) ==
    IF moveFens[1] = None THEN missingMoves
    ELSE IF moveFens[2] # None /\ moveFens[3] = None
    THEN [missingMoves EXCEPT !.check = Append(@, moveFens[1])]
    ELSE IF moveFens[2] = None /\ moveFens[3] # None
    THEN [missingMoves EXCEPT !.checkmate = Append(@, moveFens[1])]
    ELSE IF moveFens[2] = None /\ moveFens[3] = None
    THEN [missingMoves EXCEPT !.both = Append(@, moveFens[1])]
    ELSE missingMoves

\* The "Statistics" part of insertMoves for one capture flag
addMissing(missingMoves, moveFens) ==
    IF moveFens[1] = None THEN missingMoves
    ELSE IF moveFens[2] # None /\ moveFens[3] = None
    THEN [missingMoves EXCEPT !.checkmate = Append(@, moveFens[1])]
    ELSE IF moveFens[2] = None /\ moveFens[3] # None
    THEN [missingMoves EXCEPT !.check = Append(@, moveFens[1])]
    ELSE IF moveFens[2] = None /\ moveFens[3] = None
    THEN [missingMoves EXCEPT !.both = Append(@, moveFens[1])]
    ELSE missingMoves

\* What insertMoves makes of the pairs moveFens[i][j] of its loops: the
\* move list, the statistics, and whether moves were inserted
insertMoveFens(moves, stats, moveFens) ==
    LET possible(pair) == pair # None
        inserted == SelectSeq(moveFens[1] \o moveFens[2], possible)
        count(j) == stats.finalSymbol[j] + (IF moveFens[1][j] # None THEN 1 ELSE 0)
                                         + (IF moveFens[2][j] # None THEN 1 ELSE 0)
    IN  [moves |-> moves \o inserted,
         stats |-> [stats EXCEPT
                       !.finalSymbol = <<count(1), count(2), count(3)>>,
                       !.missingMoves = addMissing(addMissing(@, moveFens[1]), moveFens[2])],
         movesInserted |-> inserted # <<>>]

\* Returns [moves, stats, movesInserted]
insertMoves(moves, moveStart, moveEnd, moveGroup, stats, flipForPawn, manualMoves) ==
    LET at(i, j) == moveFen(moveStart, moveEnd, moveGroup, flipForPawn, manualMoves, i, j)
    IN  insertMoveFens(moves, stats,
                       << <<at(1, 1), at(1, 2), at(1, 3)>>, <<at(2, 1), at(2, 2), at(2, 3)>> >>)

----------------------------------------------------------------------------
(* Input: the manual moves *)

\* MANUAL_MOVES[move] = fen
Put(table, move, fen) == (move :> fen) @@ table

\* line.rstrip(), for lines whose only whitespace is the space
RECURSIVE rstrip(_)
rstrip(line) ==
    IF Len(line) > 0 /\ line[Len(line)] = " " THEN rstrip(SubSeq(line, 1, Len(line) - 1))
    ELSE line

\* re.split(" +", line, 1)
reSplit(line) ==
    LET notSpace(c) == c # " "
        isSpace(c) == c = " "
        n == leading(line, notSpace, 1)
        after == SubSeq(line, n + 1, Len(line))
    IN  IF n = Len(line) THEN <<line>>
        ELSE <<SubSeq(line, 1, n), SubSeq(after, leading(after, isSpace, 1) + 1, Len(after))>>

ValueError == <<"ValueError">>

\* The index a list of 8 elements is read at: negative indices count from
\* the end
listIndex(i) == IF i < 0 THEN i + 8 ELSE i

indexable(square) == square[1] \in -8..7 /\ square[2] \in -8..7

listSquare(square) == Square(listIndex(square[1]), listIndex(square[2]))

\* "If move is not a capture move, turn it into one"
turnedIntoCapture(parsed) == parsed[3] = <<>> /\ parsed[1] # <<>>

\* The entry <<moveFlipped, fenFlipped>> of a flip, with the capture symbol
\* capture, from the chessboard as it is when the entry is made
flippedEntry(parsed, capture, chessboard, flipFiles, flipRanks) ==
    <<parsed[1] \o flipFileRank(parsed[2], flipFiles, flipRanks) \o capture
      \o flipFileRank(parsed[4], flipFiles, flipRanks) \o parsed[5],
      chessboardToFen(chessboard, flipFiles, flipRanks, flipRanks /\ parsed[1] = <<>>)>>

\* The entries one pass of the loop over the flips makes, in order, from
\* the chessboard the pass starts with
flipMove(parsed, endSquare, chessboard, flipFiles, flipRanks) ==
    IF turnedIntoCapture(parsed)
    THEN <<flippedEntry(parsed, parsed[3], chessboard, flipFiles, flipRanks),
           flippedEntry(parsed, <<"x">>, Set(chessboard, listSquare(endSquare), "n"),
                        flipFiles, flipRanks)>>
    ELSE <<flippedEntry(parsed, parsed[3], chessboard, flipFiles, flipRanks)>>

\* MANUAL_MOVES[move] = fen for the entries from the k-th on
RECURSIVE putAll(_, _, _)
putAll(table, entries, k) ==
    IF k > Len(entries) THEN table
    ELSE putAll(Put(table, entries[k][1], entries[k][2]), entries, k + 1)

\* The loop "for (flipFiles, flipRanks) in product([False, True], repeat=2)";
\* a pass that turns the move into a capture leaves the end square of
\* chessboard empty, and the first one fails, after its first entry, on an
\* end square that is no index of the board
flipMoves(table, parsed, endSquare, chessboard) ==
    LET cleared == IF turnedIntoCapture(parsed)
                   THEN Set(chessboard, listSquare(endSquare), "")
                   ELSE chessboard
    IN  IF turnedIntoCapture(parsed) /\ ~indexable(endSquare)
        THEN [table |-> putAll(table, <<flippedEntry(parsed, parsed[3], chessboard,
                                                     FALSE, FALSE)>>, 1),
              error |-> IndexError]
        ELSE [table |-> putAll(table,
                               flipMove(parsed, endSquare, chessboard, FALSE, FALSE)
                               \o flipMove(parsed, endSquare, cleared, FALSE, TRUE)
                               \o flipMove(parsed, endSquare, cleared, TRUE, FALSE)
                               \o flipMove(parsed, endSquare, cleared, TRUE, TRUE), 1),
              error |-> None]

\* The lines the loop of readManualMoves passes over
isComment(line) == Len(line) > 0 /\ line[1] = "#"

skipped(line) == isComment(line) \/ Len(reSplit(rstrip(line))) # 2

isCastle(line) == ~skipped(line) /\ reSplit(rstrip(line))[1] # <<>> /\ reSplit(rstrip(line))[1][1] = "O"

\* One pass of the loop of readManualMoves for a line that holds a move
\* and a FEN; returns [table, error]
readMove(table, move, fen) ==
    LET parsed == parseMove(move)
        chessboard == fenToChessboard(fen)
        endSquareStr == parsed[4]
        flipped == flipMoves(table, parsed, strToSquare(endSquareStr), chessboard)
    IN  IF move = <<>> THEN [table |-> table, error |-> IndexError]
        ELSE IF move[1] = "O" THEN [table |-> Put(table, move, fen), error |-> None]
        ELSE IF chessboard = IndexError THEN [table |-> table, error |-> IndexError]
        ELSE IF Len(endSquareStr) < 2 THEN [table |-> table, error |-> IndexError]
        ELSE IF ~isdigit(endSquareStr[2]) THEN [table |-> table, error |-> ValueError]
        ELSE flipped

\* One pass of the loop of readManualMoves
readLine(table, line) ==
    IF skipped(line) THEN [table |-> table, error |-> None]
    ELSE readMove(table, reSplit(rstrip(line))[1], reSplit(rstrip(line))[2])

\* readManualMoves on a file that it reads without an error
RECURSIVE readManualMoves(_, _)
readManualMoves(table, lines) ==
    IF Len(lines) = 0 THEN table
    ELSE readManualMoves(readLine(table, lines[1]).table, Tail(lines))

----------------------------------------------------------------------------
(* The generators as a state machine *)

EndSquareList ==
    << Square(0, 1), Square(3, 3), Square(7, 7), Square(0, 0),
       Square(4, 0), Square(1, 2), Square(7, 3), Square(5, 6) >>

EndSquares == {EndSquareList[k] : k \in 1..NumEndSquares}

\* Position strings to parse: the rank groups of ranks 8 and 1 (the other
\* ranks are empty) and the side to move
NumRankGroups == 5

RankGroupList ==
    << <<"8">>, <<"k", "7">>, <<"4", "4">>, <<"3", "K", "4">>, <<"R", "n", "5", "Q">>,
       <<"8", "K">>, <<"1", "p", "1", "P", "4">>, <<"7">> >>

FenSuffix(player) == <<" ", player, " ", "-", " ", "-", " ", "0", " ", "1">>

FenOf(ranks, player) == joinRanks(ranks) \o FenSuffix(player)

FenSamples ==
    {FenOf(<<RankGroupList[a], <<"8">>, <<"8">>, <<"8">>, <<"8">>, <<"8">>, <<"8">>,
             RankGroupList[b]>>, player) :
        a \in 1..NumRankGroups, b \in 1..NumRankGroups, player \in {"w", "b"}}

\* Lines of a file of manual moves: a move for each kind of notation,
\* a castle move, a comment and a line without a position
NumLines == 2

ManualSamples ==
    << [kind |-> "move", piece |-> <<"Q">>, dis |-> <<>>, capture |-> FALSE,
        end |-> <<"a", "1">>, rest |-> <<"#">>,
        ranks |-> << <<"8">>, <<"8">>, <<"8">>, <<"8">>, <<"Q", "7">>, <<"2", "K", "5">>,
                     <<"8">>, <<"2", "k", "5">> >>],
       [kind |-> "move", piece |-> <<"Q">>, dis |-> <<>>, capture |-> FALSE,
        end |-> <<"h", "8">>, rest |-> <<"#">>,
        ranks |-> << <<"5", "k", "2">>, <<"8">>, <<"5", "K", "2">>, <<"7", "Q">>, <<"8">>,
                     <<"8">>, <<"8">>, <<"8">> >>],
       [kind |-> "move", piece |-> <<>>, dis |-> <<>>, capture |-> FALSE,
        end |-> <<"e", "8">>, rest |-> <<"=", "N", "#">>,
        ranks |-> << <<"8">>, <<"4", "P", "1", "k", "1">>, <<"6", "K", "1">>, <<"8">>, <<"8">>,
                     <<"8">>, <<"8">>, <<"8">> >>],
       [kind |-> "move", piece |-> <<>>, dis |-> <<"d">>, capture |-> TRUE,
        end |-> <<"e", "8">>, rest |-> <<"=", "N", "#">>,
        ranks |-> << <<"4", "r", "3">>, <<"3", "P", "2", "k", "1">>, <<"6", "K", "1">>, <<"8">>,
                     <<"8">>, <<"8">>, <<"8">>, <<"8">> >>],
       [kind |-> "move", piece |-> <<"R">>, dis |-> <<"d">>, capture |-> TRUE,
        end |-> <<"d", "4">>, rest |-> <<>>,
        ranks |-> << <<"7", "k">>, <<"8">>, <<"8">>, <<"8">>, <<"R", "2", "n", "4">>, <<"8">>,
                     <<"8">>, <<"3", "R", "3", "K">> >>],
       [kind |-> "comment", line |-> <<"#", " ", "Q", "a", "1">>],
       [kind |-> "castle", move |-> <<"O", "-", "O", "#">>,
        line |-> <<"O", "-", "O", "#", " ">>
                 \o FenOf(<< <<"8">>, <<"8">>, <<"8">>, <<"8">>, <<"8">>, <<"8">>,
                             <<"5", "P", "P", "P">>, <<"R", "3", "K", "k", "1", "R">> >>, "w")],
       [kind |-> "junk", line |-> <<"Q", "a", "1", "#">>],
       [kind |-> "move", piece |-> <<"Q">>, dis |-> <<>>, capture |-> FALSE,
        end |-> <<"b", "2">>, rest |-> <<>>,
        ranks |-> << <<"7", "k">>, <<"8">>, <<"8">>, <<"8">>, <<"8">>, <<"8">>,
                     <<"1", "n", "5", "K">>, <<"Q", "7">> >>],
       [kind |-> "move", piece |-> <<"R">>, dis |-> <<"a">>, capture |-> FALSE,
        end |-> <<"a", "7">>, rest |-> <<"+">>,
        ranks |-> << <<"8">>, <<"2", "k", "1", "N", "2", "R">>, <<"8">>, <<"8">>, <<"8">>,
                     <<"8">>, <<"8">>, <<"R", "3", "K", "3">> >>] >>

\* The notation of a sample of kind "move"
NotationOf(sample) ==
    sample.piece \o sample.dis \o (IF sample.capture THEN <<"x">> ELSE <<>>)
    \o sample.end \o sample.rest

LineOf(sample) ==
    IF sample.kind = "move"
    THEN NotationOf(sample) \o <<" ", " ">> \o FenOf(sample.ranks, "w") \o <<" ">>
    ELSE sample.line

ManualFiles ==
    {[k \in 1..NumLines |-> LineOf(ManualSamples[f[k]])] :
        f \in [1..NumLines -> 1..Len(ManualSamples)]}

\* The file the generators run with: a comment and a move
ManualFile == <<LineOf(ManualSamples[6]), LineOf(ManualSamples[10])>>

VARIABLES
    curPiece,         \* the piece the generator runs for
    curEndSquare,     \* the end square of the outer loop's current iteration
    calls,            \* the updateMoveGroup calls of this iteration, in order
    pc,               \* the index in calls of the current call
    step,             \* the position in the current call: <<0, 0>> between two
                      \* calls, else <<i, k>>: in updateMoveGroupCapture for
                      \* moveGroup[i - 1], before the first loop (k = 0), before
                      \* the k-th discovered attacker, or about to return (k = 9)
    chessboardBefore, \* the working boards of the current call
    chessboardAfter,
    keepFree,
    moveGroups,       \* the move groups of this iteration, by <<kind, key>>
    last,             \* the last step of a call: the call, the index of
                      \* moveGroup it worked on, which slots it filled and with
                      \* which discovered attacker (None before the first)
    ins,              \* the number of insertMoves calls of this iteration made
    movesSquare,      \* the move list of this iteration: pairs <<move, fen>>
    statsBoard,       \* the Stats of the squares whose Stats were accessed
    MANUAL_MOVES,     \* the table of manual moves, by move
    fileManualMoves,  \* the lines of the file of manual moves
    lineNo,           \* the number of lines read
    error,            \* the exception that has ended the reading, or None
    fenInput,         \* a position string
    fenBoard,         \* the board parsed from it: a board, IndexError, or None
    fenOutput,        \* the string written from the board, with the flags
    walk              \* the position in the loops of a generator that is run
                      \* step by step (None when none is): the loop, the index
                      \* of the direction, the loop variable square, the list
                      \* startSquares, the index of the piece being placed

callVars == <<curPiece, curEndSquare, calls>>

workVars == <<pc, step, chessboardBefore, chessboardAfter, keepFree, moveGroups, last>>

outVars == <<ins, movesSquare, statsBoard>>

manualVars == <<MANUAL_MOVES, fileManualMoves, lineNo, error>>

fenVars == <<fenInput, fenBoard, fenOutput>>

vars == <<callVars, workVars, outVars, manualVars, fenVars, walk>>

Idle == <<0, 0>>

NoneFilled == <<FALSE, FALSE, FALSE>>

\* No generator runs
InitGenerators ==
    /\ curPiece = ""
    /\ curEndSquare = None
    /\ calls = <<>>
    /\ pc = 1
    /\ step = Idle
    /\ chessboardBefore = None
    /\ chessboardAfter = None
    /\ keepFree = None
    /\ moveGroups = <<>>
    /\ last = None
    /\ ins = 0
    /\ movesSquare = <<>>
    /\ statsBoard = <<>>
    /\ walk = None

\* No position string is being parsed
InitFenIdle ==
    /\ fenInput = None
    /\ fenBoard = None
    /\ fenOutput = None

\* main has called readManualMoves; a generator starts on an end square
Init ==
    /\ curPiece \in {"K", "R", "B", "Q", "N"}
    /\ curEndSquare \in EndSquares
    /\ calls = IF curPiece = "K"
               THEN kingSanCalls(curEndSquare)
               ELSE disambiguationCalls(curEndSquare, getStartSquares(curPiece, curEndSquare))
    /\ pc = 1
    /\ step = Idle
    /\ chessboardBefore = None
    /\ chessboardAfter = None
    /\ keepFree = None
    /\ moveGroups = [g \in DisambiguationGroups |-> getEmptyMoveGroup]
    /\ last = None
    /\ ins = 0
    /\ movesSquare = <<>>
    /\ statsBoard = <<>>
    /\ fileManualMoves = ManualFile
    /\ lineNo = Len(ManualFile)
    /\ MANUAL_MOVES = readManualMoves(<<>>, ManualFile)
    /\ error = None
    /\ InitFenIdle
    /\ walk = None

CurrentGroup == <<calls[pc].kind, calls[pc].key>>

\* A call of updateMoveGroup up to its first call of updateMoveGroupCapture;
\* it returns at once on a move group that is full
updateMoveGroup(kind) ==
    /\ step = Idle
    /\ pc <= Len(calls)
    /\ calls[pc].kind = kind
    /\ last' = [call |-> calls[pc], capture |-> 1, filled |-> NoneFilled,
                discovered |-> <<None, None, None>>]
    /\ IF alreadyFull(moveGroups[CurrentGroup])
       THEN /\ pc' = pc + 1
            /\ UNCHANGED <<step, chessboardBefore, chessboardAfter, keepFree>>
       ELSE /\ LET pieces == placePieces(Board(""), Board(FALSE), curPiece,
                                         <<calls[pc].startSquare>> \o calls[pc].otherSquares,
                                         1, calls[pc].endSquare)
               IN  /\ chessboardBefore' = pieces.chessboardBefore
                   /\ keepFree' = pieces.keepFree
                   /\ chessboardAfter' =
                          Set(Set(pieces.chessboardBefore, calls[pc].startSquare, ""),
                              calls[pc].endSquare,
                              IF calls[pc].promotePiece = "" THEN curPiece
                              ELSE calls[pc].promotePiece)
            /\ step' = <<1, 0>>
            /\ pc' = pc
    /\ UNCHANGED <<callVars, moveGroups, outVars, manualVars, fenVars, walk>>

\* The loops of getMovesDisambiguation and of getMovesKingSan that call
\* updateMoveGroup
OnePiece == updateMoveGroup("plain")

TwoPiecesFile == updateMoveGroup("file")

TwoPiecesRank == updateMoveGroup("rank")

ThreePieces == updateMoveGroup("square")

KingSan == updateMoveGroup("king")

\* Store on a board of move groups whose squares share one move group
StoreShared(state) ==
    /\ moveGroups' = [g \in DOMAIN moveGroups |->
                         IF g = CurrentGroup \/ (g[1] = "square" /\ CurrentGroup[1] = "square")
                         THEN [moveGroups[g] EXCEPT ![step[1]] = state.slots]
                         ELSE moveGroups[g]]
    /\ last' = [call |-> calls[pc], capture |-> step[1], filled |-> state.filled,
                discovered |-> state.discovered]

\* moveGroupCapture[...] = ... of a step of updateMoveGroupCapture
Store(state) ==
    /\ moveGroups' = [moveGroups EXCEPT
                         ![CurrentGroup] = [@ EXCEPT ![step[1]] = state.slots]]
    /\ last' = [call |-> calls[pc], capture |-> step[1], filled |-> state.filled,
                discovered |-> state.discovered]

\* The first loop of updateMoveGroupCapture
PlaceKings ==
    /\ step[1] \in {1, 2}
    /\ step[2] = 0
    /\ Store(placeAll(moveGroups[CurrentGroup][step[1]], calls[pc].endSquare,
                      chessboardBefore, chessboardAfter, keepFree, curPiece = "K"))
    /\ step' = <<step[1], 1>>
    /\ UNCHANGED <<callVars, pc, chessboardBefore, chessboardAfter, keepFree, outVars, manualVars, fenVars, walk>>

\* One pass of the loops over the discovered attackers: the attacker is
\* placed, check and checkmate are generated, the attacker is removed
DiscoveredAttack ==
    /\ step[1] \in {1, 2}
    /\ step[2] \in 1..Len(DISCOVERED_ATTACKERS)
    /\ LET pieceDiscovered == DISCOVERED_ATTACKERS[step[2]][1]
           squareAttacker == SquareAdd(calls[pc].startSquare, DISCOVERED_ATTACKERS[step[2]][2])
       IN  IF skipDiscovered(moveGroups[CurrentGroup][step[1]], curPiece, pieceDiscovered,
                             squareAttacker, keepFree)
           THEN /\ Store(CaptureState(moveGroups[CurrentGroup][step[1]]))
                /\ UNCHANGED <<chessboardBefore, chessboardAfter, keepFree>>
           ELSE /\ Store(tryDiscovered(moveGroups[CurrentGroup][step[1]], pieceDiscovered,
                             squareAttacker, calls[pc].endSquare,
                             Set(chessboardBefore, squareAttacker, pieceDiscovered),
                             Set(chessboardAfter, squareAttacker, pieceDiscovered),
                             Set(keepFree, squareAttacker, TRUE), curPiece = "K"))
                /\ chessboardBefore' =
                       Set(Set(chessboardBefore, squareAttacker, pieceDiscovered),
                           squareAttacker, "")
                /\ chessboardAfter' =
                       Set(Set(chessboardAfter, squareAttacker, pieceDiscovered),
                           squareAttacker, "")
                /\ keepFree' = Set(Set(keepFree, squareAttacker, TRUE), squareAttacker, FALSE)
    /\ step' = <<step[1], step[2] + 1>>
    /\ UNCHANGED <<callVars, pc, outVars, manualVars, fenVars, walk>>

\* Variant: the end square is left empty for the capture moves
CaptureMovesNoPlaceholder ==
    /\ step = <<1, Len(DISCOVERED_ATTACKERS) + 1>>
    /\ step' = <<2, 0>>
    /\ UNCHANGED <<callVars, pc, chessboardBefore, chessboardAfter, keepFree, moveGroups, last, outVars, manualVars, fenVars, walk>>

\* Variant: a black pawn on the end square for the capture moves
CaptureMovesPawn ==
    /\ step = <<1, Len(DISCOVERED_ATTACKERS) + 1>>
    /\ chessboardBefore' = Set(chessboardBefore, calls[pc].endSquare, "p")
    /\ step' = <<2, 0>>
    /\ UNCHANGED <<callVars, pc, chessboardAfter, keepFree, moveGroups, last, outVars, manualVars, fenVars, walk>>

\* Between the two calls of updateMoveGroupCapture
CaptureMoves ==
    /\ step = <<1, Len(DISCOVERED_ATTACKERS) + 1>>
    /\ chessboardBefore' = Set(chessboardBefore, calls[pc].endSquare, "n")
    /\ step' = <<2, 0>>
    /\ UNCHANGED <<callVars, pc, chessboardAfter, keepFree, moveGroups, last, outVars, manualVars, fenVars, walk>>

\* The return of updateMoveGroup
Return ==
    /\ step = <<2, Len(DISCOVERED_ATTACKERS) + 1>>
    /\ step' = Idle
    /\ pc' = pc + 1
    /\ UNCHANGED <<callVars, chessboardBefore, chessboardAfter, keepFree, moveGroups, last, outVars, manualVars, fenVars, walk>>

\* statsBoard[square]
StatsAt(square) == IF square \in DOMAIN statsBoard THEN statsBoard[square] ELSE Stats

\* A call of insertMoves of getMovesDisambiguation for the move group
\* group, with the Stats of the end square; Flag sets the flag of the group
\* The move list and the Stats of square after a call of insertMoves
Inserted(result, square, Flag(_)) ==
    /\ movesSquare' = result.moves
    /\ statsBoard' = Put(statsBoard, square,
                         IF result.movesInserted THEN Flag(result.stats) ELSE result.stats)

InsertGroup(group, moveStart, Flag(_)) ==
    /\ Inserted(insertMoves(movesSquare, moveStart, squareToStr(curEndSquare),
                            moveGroups[group], StatsAt(curEndSquare), FALSE, MANUAL_MOVES),
                curEndSquare, Flag)
    /\ ins' = ins + 1
    /\ UNCHANGED <<callVars, workVars, manualVars, fenVars, walk>>

\* The updates are made
Updated == pc > Len(calls) /\ step = Idle

\* "Insert plain move"
InsertPlain ==
    /\ Updated /\ curPiece # "K"
    /\ ins = 0
    /\ LET Flag(stats) == [stats EXCEPT !.plainMove = TRUE]
       IN  InsertGroup(<<"plain", 0>>, <<curPiece>>, Flag)

\* "Insert file moves"
InsertFile ==
    /\ Updated /\ curPiece # "K"
    /\ ins \in 1..8
    /\ LET fileStart == ins - 1
           Flag(stats) == [stats EXCEPT !.fileMove[fileStart + 1] = TRUE]
       IN  InsertGroup(<<"file", fileStart>>, <<curPiece, fileToStr(fileStart)>>, Flag)

\* InsertRank with the name of a file for the rank
InsertRankFileName ==
    /\ Updated /\ curPiece # "K"
    /\ ins \in 9..16
    /\ LET rankStart == ins - 9
           Flag(stats) == [stats EXCEPT !.rankMove[rankStart + 1] = TRUE]
       IN  InsertGroup(<<"rank", rankStart>>, <<curPiece, fileToStr(rankStart)>>, Flag)

\* "Insert rank moves"
InsertRank ==
    /\ Updated /\ curPiece # "K"
    /\ ins \in 9..16
    /\ LET rankStart == ins - 9
           Flag(stats) == [stats EXCEPT !.rankMove[rankStart + 1] = TRUE]
       IN  InsertGroup(<<"rank", rankStart>>, <<curPiece, rankToStr(rankStart)>>, Flag)

\* "Insert square moves"
InsertSquare ==
    /\ Updated /\ curPiece # "K"
    /\ ins \in 17..80
    /\ LET startSquare == SQUARES[ins - 16]
           Flag(stats) == [stats EXCEPT !.squareMove = @ \cup {startSquare}]
       IN  InsertGroup(<<"square", SquareKey(startSquare)>>,
                       <<curPiece>> \o squareToStr(startSquare), Flag)

\* "Mark reachable squares", and the return of getMovesDisambiguation
MarkReachable ==
    /\ Updated /\ curPiece # "K"
    /\ ins = 81
    /\ LET startSquares == getStartSquares(curPiece, curEndSquare)
       IN  statsBoard' = Put(statsBoard, curEndSquare,
                             [StatsAt(curEndSquare) EXCEPT
                                 !.reachable = @ \cup {Sq(startSquares[k]) :
                                                          k \in 1..Len(startSquares)}])
    /\ ins' = 82
    /\ UNCHANGED <<callVars, workVars, movesSquare, manualVars, fenVars, walk>>

\* The call of insertMoves of getMovesKingSan, with the Stats of the square
\* the loop variable startSquare holds after the loop
InsertKing ==
    /\ Updated /\ curPiece = "K"
    /\ ins = 0
    /\ LET startSquares == getStartSquaresJump(curEndSquare, KING_JUMPS)
           startSquare == Sq(startSquares[Len(startSquares)])
           NoFlag(stats) == stats
       IN  Inserted(insertMoves(movesSquare, <<"K">>, squareToStr(curEndSquare),
                                moveGroups[<<"king", 0>>], StatsAt(startSquare), FALSE,
                                MANUAL_MOVES),
                    startSquare, NoFlag)
    /\ ins' = 82
    /\ UNCHANGED <<callVars, workVars, manualVars, fenVars, walk>>

Next ==
    \/ OnePiece
    \/ TwoPiecesFile
    \/ TwoPiecesRank
    \/ ThreePieces
    \/ KingSan
    \/ PlaceKings
    \/ DiscoveredAttack
    \/ CaptureMoves
    \/ Return
    \/ InsertPlain
    \/ InsertFile
    \/ InsertRank
    \/ InsertSquare
    \/ MarkReachable
    \/ InsertKing

Spec == Init /\ [][Next]_vars

----------------------------------------------------------------------------
(* readManualMoves, line by line *)

InitManual ==
    /\ InitGenerators
    /\ InitFenIdle
    /\ fileManualMoves \in ManualFiles
    /\ lineNo = 0
    /\ MANUAL_MOVES = <<>>
    /\ error = None

\* One pass of the loop over the lines
ReadLine ==
    /\ error = None
    /\ lineNo < Len(fileManualMoves)
    /\ LET result == readLine(MANUAL_MOVES, fileManualMoves[lineNo + 1])
       IN  /\ MANUAL_MOVES' = result.table
           /\ error' = result.error
    /\ lineNo' = lineNo + 1
    /\ UNCHANGED <<fileManualMoves, callVars, workVars, outVars, fenVars, walk>>

\* "continue" on a comment and on a line that is not a move and a FEN
SkipLine == ReadLine /\ skipped(fileManualMoves[lineNo + 1])

\* "Don't duplicate castle moves"
CastleLine == ReadLine /\ isCastle(fileManualMoves[lineNo + 1])

\* The move is entered with its flips
MoveLine ==
    /\ ReadLine
    /\ ~skipped(fileManualMoves[lineNo + 1])
    /\ ~isCastle(fileManualMoves[lineNo + 1])

NextManual == SkipLine \/ CastleLine \/ MoveLine

SpecManual == InitManual /\ [][NextManual]_vars

\* Lines of a file of manual moves that hold no move and position, and
\* lines of the move Bc3 whose position is not a position string
BishopC3 == <<"B", "c", "3">>

\* "/".join(ranks) for any number of ranks
RECURSIVE join(_)
join(ranks) ==
    IF Len(ranks) = 0 THEN <<>>
    ELSE IF Len(ranks) = 1 THEN ranks[1]
    ELSE ranks[1] \o <<"/">> \o join(Tail(ranks))

EmptyRanks(n) == [k \in 1..n |-> <<"8">>]

BishopLine(ranks) == BishopC3 \o <<" ">> \o join(ranks) \o FenSuffix("w")

LineSamples ==
    << <<"#", " ">> \o BishopC3,
       <<"#">> \o BishopLine(EmptyRanks(8)),
       <<>>,
       <<" ", " ">>,
       BishopC3,
       BishopC3 \o <<" ", " ">>,
       <<" ">> \o BishopC3,
       <<" ">> \o BishopLine(EmptyRanks(8)),
       BishopLine(EmptyRanks(8)),
       BishopLine(EmptyRanks(7) \o << <<"7">> >>),
       BishopLine(EmptyRanks(7)),
       BishopLine(EmptyRanks(9)),
       BishopLine(EmptyRanks(7) \o << <<"8", "k">> >>),
       BishopLine(EmptyRanks(7) \o << <<"4", "5">> >>),
       BishopLine(EmptyRanks(7) \o << <<"x", "7">> >>),
       ManualSamples[7].line >>

LineFiles ==
    {[k \in 1..NumLines |-> LineSamples[f[k]]] : f \in [1..NumLines -> 1..Len(LineSamples)]}

InitLines ==
    /\ InitGenerators
    /\ InitFenIdle
    /\ fileManualMoves \in LineFiles
    /\ lineNo = 0
    /\ MANUAL_MOVES = <<>>
    /\ error = None

SpecLines == InitLines /\ [][NextManual]_vars

----------------------------------------------------------------------------
(* A position string parsed and written *)

InitFen ==
    /\ InitGenerators
    /\ fileManualMoves = <<>>
    /\ lineNo = 0
    /\ MANUAL_MOVES = <<>>
    /\ error = None
    /\ fenInput \in FenSamples
    /\ fenBoard = None
    /\ fenOutput = None

ParseFen ==
    /\ fenBoard = None
    /\ fenBoard' = fenToChessboard(fenInput)
    /\ UNCHANGED <<fenInput, fenOutput, callVars, workVars, outVars, manualVars, walk>>

WriteFen ==
    /\ fenBoard \notin {None, IndexError}
    /\ fenOutput = None
    /\ \E flipFiles \in BOOLEAN : \E flipRanks \in BOOLEAN : \E swapPlayers \in BOOLEAN :
           fenOutput' = [flipFiles |-> flipFiles, flipRanks |-> flipRanks,
                         swapPlayers |-> swapPlayers,
                         fen |-> chessboardToFen(fenBoard, flipFiles, flipRanks, swapPlayers)]
    /\ UNCHANGED <<fenInput, fenBoard, callVars, workVars, outVars, manualVars, walk>>

NextFen == ParseFen \/ WriteFen

SpecFen == InitFen /\ [][NextFen]_vars

----------------------------------------------------------------------------
(* The generators' loops, step by step: the walks of                       *)
(* getStartSquaresDirection and of updateMoveGroup are "while" loops       *)

\* "Flip ranks if player is black"
pawnEndSquare(endSquare, player) ==
    IF player = "b" THEN Square(endSquare[1], 7 - endSquare[2]) ELSE endSquare

\* promotionOptions that never promotes
promotionOptionsNever(endSquare) == <<"">>

\* "For every promotion option (piece or no promotion)"
promotionOptions(endSquare) == IF endSquare[2] = 7 THEN PROMOTION ELSE <<"">>

\* The move group of a call of a pawn generator: each call has its own
pawnKey(player, option, offset) == (IF player = "b" THEN 16 ELSE 0) + 2 * option + offset

\* The calls of updateMoveGroup of getMovesPawnSingle
pawnSingleCalls(endSquare, player, options) ==
    IF endSquare[2] < 2 THEN <<>>
    ELSE [k \in 1..Len(options) |->
             Call("single", pawnKey(player, k, 0), SquareAdd(endSquare, Offset(0, -1)),
                  endSquare, <<>>, options[k])]

\* The calls of updateMoveGroup of getMovesPawnCapture
pawnCaptureCalls(endSquare, player, options) ==
    LET offsets == <<Offset(-1, -1), Offset(1, -1)>>
        passes == [n \in 1..(2 * Len(options)) |-> <<((n - 1) \div 2) + 1, ((n - 1) % 2) + 1>>]
        startsOnBoard(pass) == onBoard(SquareAdd(endSquare, offsets[pass[2]]))
        made == SelectSeq(passes, startsOnBoard)
    IN  IF endSquare[2] < 2 THEN <<>>
        ELSE [n \in 1..Len(made) |->
                 Call("capture", pawnKey(player, made[n][1], made[n][2]),
                      SquareAdd(endSquare, offsets[made[n][2]]), endSquare, <<>>,
                      options[made[n][1]])]

\* The call of updateMoveGroup of getMovesPawnDouble
pawnDoubleCalls(endSquare, player) ==
    IF endSquare[2] # 3 THEN <<>>
    ELSE <<Call("double", pawnKey(player, 0, 0), SquareAdd(endSquare, Offset(0, -2)),
                endSquare, <<>>, "")>>

\* One pass of the loop over the players of getMovesPawnLan
pawnPlayerCalls(endSquare, player) ==
    pawnSingleCalls(endSquare, player, promotionOptions(endSquare))
    \o pawnCaptureCalls(endSquare, player, promotionOptions(endSquare))
    \o pawnDoubleCalls(endSquare, player)

\* The calls of getMovesPawnLan for one end square
pawnCalls(endSquare) ==
    pawnPlayerCalls(pawnEndSquare(endSquare, "w"), "w")
    \o pawnPlayerCalls(pawnEndSquare(endSquare, "b"), "b")

PawnGroups == {<<kind, key>> : kind \in {"single", "capture", "double"}, key \in 0..26}

\* [startSquare] + otherSquares of the current call
PiecesOf(call) == <<call.startSquare>> \o call.otherSquares

InitLoops ==
    /\ curPiece \in {"K", "R", "B", "Q", "N", "P"}
    /\ curEndSquare \in EndSquares
    /\ calls = <<>>
    /\ pc = 1
    /\ step = Idle
    /\ chessboardBefore = None
    /\ chessboardAfter = None
    /\ keepFree = None
    /\ moveGroups = [g \in DisambiguationGroups \cup PawnGroups |-> getEmptyMoveGroup]
    /\ last = None
    /\ ins = 0
    /\ movesSquare = <<>>
    /\ statsBoard = <<>>
    /\ fileManualMoves = <<>>
    /\ lineNo = 0
    /\ MANUAL_MOVES = <<>>
    /\ error = None
    /\ InitFenIdle
    /\ walk = [loop |-> "start", directionId |-> 0, square |-> None, startSquares |-> <<>>,
               k |-> 0]

\* getStartSquaresJump, a loop over the jumps, and the enumeration of the
\* calls for its squares
StartSquaresJump ==
    /\ walk.loop = "start"
    /\ isJump(curPiece)
    /\ calls' = IF curPiece = "K" THEN kingSanCalls(curEndSquare)
                ELSE disambiguationCalls(curEndSquare,
                                         getStartSquaresJump(curEndSquare, movement(curPiece)))
    /\ walk' = [walk EXCEPT !.loop = "calls",
                            !.startSquares = getStartSquaresJump(curEndSquare, movement(curPiece))]
    /\ UNCHANGED <<curPiece, curEndSquare, workVars, outVars, manualVars, fenVars>>

\* The pawn generators: no loop over start squares
PawnSquares ==
    /\ walk.loop = "start"
    /\ curPiece = "P"
    /\ calls' = pawnCalls(curEndSquare)
    /\ walk' = [walk EXCEPT !.loop = "calls"]
    /\ UNCHANGED <<curPiece, curEndSquare, workVars, outVars, manualVars, fenVars>>

\* "For every direction": the pass starts the walk from the square next to
\* the end square
NextDirection ==
    /\ walk.loop = "start"
    /\ curPiece \in {"R", "B", "Q"}
    /\ walk.directionId < Len(movement(curPiece))
    /\ walk' = [walk EXCEPT
                   !.loop = "walk",
                   !.square = SquareSub(curEndSquare,
                                        movement(curPiece)[walk.directionId + 1])]
    /\ UNCHANGED <<callVars, workVars, outVars, manualVars, fenVars>>

\* getStartSquaresDirection has returned
Walked ==
    /\ walk.loop = "start"
    /\ curPiece \in {"R", "B", "Q"}
    /\ walk.directionId = Len(movement(curPiece))

\* The enumeration of the calls for the squares of getStartSquaresDirection
Enumerate ==
    /\ Walked
    /\ walk' = [walk EXCEPT !.loop = "calls"]
    /\ calls' = disambiguationCalls(curEndSquare, walk.startSquares)
    /\ UNCHANGED <<curPiece, curEndSquare, workVars, outVars, manualVars, fenVars>>

\* WalkStartSquares that leaves the loop after its first pass
WalkStartSquaresOnce ==
    /\ walk.loop = "walk"
    /\ IF onBoard(walk.square) /\ walk.square = SquareSub(curEndSquare, movement(curPiece)[walk.directionId + 1])
       THEN walk' = [walk EXCEPT
                        !.startSquares = Append(@, <<walk.square[1], walk.square[2],
                                                     walk.directionId>>),
                        !.square = SquareSub(walk.square,
                                             movement(curPiece)[walk.directionId + 1])]
       ELSE walk' = [walk EXCEPT !.loop = "start", !.directionId = @ + 1]
    /\ UNCHANGED <<callVars, workVars, outVars, manualVars, fenVars>>

\* "while square.onBoard()": one test of the condition, and one pass
WalkStartSquares ==
    /\ walk.loop = "walk"
    /\ IF onBoard(walk.square)
       THEN walk' = [walk EXCEPT
                        !.startSquares = Append(@, <<walk.square[1], walk.square[2],
                                                     walk.directionId>>),
                        !.square = SquareSub(walk.square,
                                             movement(curPiece)[walk.directionId + 1])]
       ELSE walk' = [walk EXCEPT !.loop = "start", !.directionId = @ + 1]
    /\ UNCHANGED <<callVars, workVars, outVars, manualVars, fenVars>>

\* A call of updateMoveGroup up to its loop over the pieces
BeginCall ==
    /\ walk.loop = "calls"
    /\ step = Idle
    /\ pc <= Len(calls)
    /\ last' = [call |-> calls[pc], capture |-> 1, filled |-> NoneFilled,
                discovered |-> <<None, None, None>>]
    /\ IF alreadyFull(moveGroups[CurrentGroup])
       THEN /\ pc' = pc + 1
            /\ UNCHANGED <<chessboardBefore, keepFree, walk>>
       ELSE /\ chessboardBefore' = Board("")
            /\ keepFree' = Board(FALSE)
            /\ walk' = [walk EXCEPT !.loop = "pieces", !.k = 1]
            /\ pc' = pc
    /\ UNCHANGED <<callVars, step, chessboardAfter, moveGroups, outVars, manualVars, fenVars>>

\* "for square in [startSquare] + otherSquares": the pass up to the walk
\* along the line of attack, the whole pass for a knight; after the last
\* pass, the chessboard after the move
PlacePiece ==
    /\ walk.loop = "pieces"
    /\ IF walk.k > Len(PiecesOf(calls[pc]))
       THEN /\ chessboardAfter' =
                   Set(Set(chessboardBefore, calls[pc].startSquare, ""), calls[pc].endSquare,
                       IF calls[pc].promotePiece = "" THEN curPiece
                       ELSE calls[pc].promotePiece)
            /\ step' = <<1, 0>>
            /\ walk' = [walk EXCEPT !.loop = "calls"]
            /\ UNCHANGED <<chessboardBefore, keepFree>>
       ELSE /\ chessboardBefore' = Set(chessboardBefore, PiecesOf(calls[pc])[walk.k], curPiece)
            /\ IF curPiece = "N"
               THEN /\ keepFree' = Set(Set(keepFree, PiecesOf(calls[pc])[walk.k], TRUE),
                                       calls[pc].endSquare, TRUE)
                    /\ walk' = [walk EXCEPT !.k = @ + 1]
               ELSE /\ keepFree' = keepFree
                    /\ walk' = [walk EXCEPT !.loop = "line",
                                            !.square = PiecesOf(calls[pc])[walk.k]]
            /\ UNCHANGED <<chessboardAfter, step>>
    /\ UNCHANGED <<callVars, pc, moveGroups, last, outVars, manualVars, fenVars>>

\* MarkLine that marks only the start square of the piece
MarkLineStartOnly ==
    /\ walk.loop = "line"
    /\ LET piece == PiecesOf(calls[pc])[walk.k]
           direction == Offset(sign(calls[pc].endSquare[1] - piece[1]),
                               sign(calls[pc].endSquare[2] - piece[2]))
       IN  IF walk.square = calls[pc].endSquare
           THEN /\ keepFree' = Set(keepFree, calls[pc].endSquare, TRUE)
                /\ walk' = [walk EXCEPT !.loop = "pieces", !.k = @ + 1]
           ELSE IF indexable(walk.square)
           THEN /\ keepFree' = IF walk.square = piece
                                THEN Set(keepFree, listSquare(walk.square), TRUE)
                                ELSE keepFree
                /\ walk' = [walk EXCEPT !.square = SquareAdd(walk.square, direction)]
           ELSE /\ keepFree' = keepFree
                /\ walk' = [walk EXCEPT !.loop = "IndexError"]
    /\ UNCHANGED <<callVars, pc, step, chessboardBefore, chessboardAfter, moveGroups, last, outVars, manualVars, fenVars>>

\* "while square != endSquare": one test of the condition, and one pass; a
\* square that is no index of the board ends the run with an IndexError
MarkLine ==
    /\ walk.loop = "line"
    /\ LET piece == PiecesOf(calls[pc])[walk.k]
           direction == Offset(sign(calls[pc].endSquare[1] - piece[1]),
                               sign(calls[pc].endSquare[2] - piece[2]))
       IN  IF walk.square = calls[pc].endSquare
           THEN /\ keepFree' = Set(keepFree, calls[pc].endSquare, TRUE)
                /\ walk' = [walk EXCEPT !.loop = "pieces", !.k = @ + 1]
           ELSE IF indexable(walk.square)
           THEN /\ keepFree' = Set(keepFree, listSquare(walk.square), TRUE)
                /\ walk' = [walk EXCEPT !.square = SquareAdd(walk.square, direction)]
           ELSE /\ keepFree' = keepFree
                /\ walk' = [walk EXCEPT !.loop = "IndexError"]
    /\ UNCHANGED <<callVars, pc, step, chessboardBefore, chessboardAfter, moveGroups, last, outVars, manualVars, fenVars>>

\* The generator has made its calls for the end square
EndCalls ==
    /\ walk.loop = "calls"
    /\ step = Idle
    /\ pc > Len(calls)
    /\ walk' = [walk EXCEPT !.loop = "done"]
    /\ UNCHANGED <<callVars, workVars, outVars, manualVars, fenVars>>

NextLoops ==
    \/ StartSquaresJump
    \/ PawnSquares
    \/ NextDirection
    \/ WalkStartSquares
    \/ Enumerate
    \/ BeginCall
    \/ PlacePiece
    \/ MarkLine
    \/ PlaceKings
    \/ DiscoveredAttack
    \/ CaptureMoves
    \/ Return
    \/ EndCalls

SpecLoops == InitLoops /\ [][NextLoops]_vars

\* The steps of updateMoveGroupCapture (PlaceKings, DiscoveredAttack,
\* CaptureMoves, Return) as they move the position step; such a step is
\* possible whenever step is a position in updateMoveGroupCapture
CaptureSteps ==
    /\ step[1] \in {1, 2}
    /\ step' = IF step[2] <= Len(DISCOVERED_ATTACKERS) THEN <<step[1], step[2] + 1>>
               ELSE IF step[1] = 1 THEN <<2, 0>>
               ELSE Idle

\* The step Enumerate as it moves the position in the loops
EnumerateStep == Walked /\ walk' = [walk EXCEPT !.loop = "calls"]

\* The other steps
LoopSteps ==
    \/ StartSquaresJump
    \/ PawnSquares
    \/ NextDirection
    \/ WalkStartSquares
    \/ BeginCall
    \/ PlacePiece
    \/ MarkLine
    \/ EndCalls

\* The program is sequential: a step that can be taken is taken
SpecLoopsFair ==
    SpecLoops /\ WF_vars(LoopSteps) /\ WF_walk(EnumerateStep) /\ WF_step(CaptureSteps)

----------------------------------------------------------------------------
(* getMovesKnightSan on end squares from which the knight attacks a corner *)

\* Number of end squares (taken from KnightEndSquareList) of this run
NumKnightEndSquares == 2

\* b3 and c2 (the knight attacks a1), g6 and f7 (h8)
KnightEndSquareList == << Square(1, 2), Square(6, 5), Square(2, 1), Square(5, 6) >>

KnightEndSquares == {KnightEndSquareList[k] : k \in 1..NumKnightEndSquares}

InitKnight ==
    /\ curPiece = "N"
    /\ curEndSquare \in KnightEndSquares
    /\ calls = disambiguationCalls(curEndSquare, getStartSquares(curPiece, curEndSquare))
    /\ pc = 1
    /\ step = Idle
    /\ chessboardBefore = None
    /\ chessboardAfter = None
    /\ keepFree = None
    /\ moveGroups = [g \in DisambiguationGroups |-> getEmptyMoveGroup]
    /\ last = None
    /\ ins = 0
    /\ movesSquare = <<>>
    /\ statsBoard = <<>>
    /\ fileManualMoves = <<>>
    /\ lineNo = 0
    /\ MANUAL_MOVES = <<>>
    /\ error = None
    /\ InitFenIdle
    /\ walk = None

\* The calls of updateMoveGroup of getMovesDisambiguation
NextKnight ==
    \/ OnePiece
    \/ TwoPiecesFile
    \/ TwoPiecesRank
    \/ ThreePieces
    \/ PlaceKings
    \/ DiscoveredAttack
    \/ CaptureMoves
    \/ Return

SpecKnight == InitKnight /\ [][NextKnight]_vars

----------------------------------------------------------------------------
(* The pawn generators for one end square: getMovesPawnSan and              *)
(* getMovesPawnLan, each call of updateMoveGroup followed by its call of    *)
(* insertMoves                                                              *)

NumPawnEndSquares == 2

\* h8 (white promotes), d4 (double step of white), a1 (black promotes),
\* e5 (double step of black), b2
PawnEndSquareList ==
    << Square(7, 7), Square(3, 3), Square(0, 0), Square(4, 4), Square(1, 1) >>

PawnEndSquares == {PawnEndSquareList[k] : k \in 1..NumPawnEndSquares}

\* The calls of getMovesPawnSan for one end square: "White pawn can't
\* reach first two ranks"
pawnSanCalls(endSquare) ==
    LET player == IF endSquare[2] >= 2 THEN "w" ELSE "b"
        flipped == pawnEndSquare(endSquare, player)
    IN  pawnSingleCalls(flipped, player, promotionOptions(flipped))
        \o pawnCaptureCalls(flipped, player, promotionOptions(flipped))

\* The player of a call of a pawn generator
pawnPlayer(call) == IF call.key >= 16 THEN "b" ELSE "w"

\* "Start of move string"
pawnMoveStart(call, san) ==
    IF san
    THEN IF call.kind = "capture" THEN <<fileToStr(call.startSquare[1])>> ELSE <<>>
    ELSE flipFileRank(squareToStr(call.startSquare), FALSE, pawnPlayer(call) = "b")

\* "End of move string"
pawnMoveEnd(call, endSquare) ==
    squareToStr(endSquare)
    \o (IF call.promotePiece = "" THEN <<>> ELSE <<"=", call.promotePiece>>)

\* "Move group also contains capture moves, so delete them before insertion
\* into move list", and the other way round for the captures
pawnMoveGroup(call, moveGroup) ==
    IF call.kind = "capture" THEN <<<<None, None, None>>, moveGroup[2]>>
    ELSE <<moveGroup[1], <<None, None, None>>>>

InitPawn ==
    /\ curPiece = "P"
    /\ curEndSquare \in PawnEndSquares
    /\ \E san \in BOOLEAN :
           /\ walk = [loop |-> "pawn", san |-> san]
           /\ calls = IF san THEN pawnSanCalls(curEndSquare) ELSE pawnCalls(curEndSquare)
    /\ pc = 1
    /\ step = Idle
    /\ chessboardBefore = None
    /\ chessboardAfter = None
    /\ keepFree = None
    /\ moveGroups = [g \in PawnGroups |-> getEmptyMoveGroup]
    /\ last = None
    /\ ins = 0
    /\ movesSquare = <<>>
    /\ statsBoard = <<>>
    /\ fileManualMoves = ManualFile
    /\ lineNo = Len(ManualFile)
    /\ MANUAL_MOVES = readManualMoves(<<>>, ManualFile)
    /\ error = None
    /\ InitFenIdle

\* The calls of updateMoveGroup of the three pawn generators: the moves of
\* the call before are inserted
PawnSingle == ins = pc - 1 /\ updateMoveGroup("single")

PawnCapture == ins = pc - 1 /\ updateMoveGroup("capture")

PawnDouble == ins = pc - 1 /\ updateMoveGroup("double")

\* The call of insertMoves that follows a call of updateMoveGroup
InsertPawn ==
    /\ step = Idle
    /\ ins = pc - 2
    /\ LET call == calls[pc - 1]
           NoFlag(stats) == stats
       IN  Inserted(insertMoves(movesSquare, pawnMoveStart(call, walk.san),
                                pawnMoveEnd(call, curEndSquare),
                                pawnMoveGroup(call, moveGroups[<<call.kind, call.key>>]),
                                StatsAt(curEndSquare), pawnPlayer(call) = "b", MANUAL_MOVES),
                    curEndSquare, NoFlag)
    /\ ins' = ins + 1
    /\ UNCHANGED <<callVars, workVars, manualVars, fenVars, walk>>

NextPawn ==
    \/ PawnSingle
    \/ PawnCapture
    \/ PawnDouble
    \/ PlaceKings
    \/ DiscoveredAttack
    \/ CaptureMoves
    \/ Return
    \/ InsertPawn

SpecPawn == InitPawn /\ [][NextPawn]_vars

----------------------------------------------------------------------------
(* The rules of chess, read independently of the generator's attack field: *)
(* what the positions are checked against                                  *)

BoardSquares == {Square(f, r) : f \in 0..7, r \in 0..7}

White(p) == p \in {"P", "K", "N", "B", "R", "Q"}

Black(p) == p \in {"p", "k", "n", "b", "r", "q"}

SquaresWith(board, p) == {sq \in BoardSquares : Get(board, sq) = p}

Max(a, b) == IF a >= b THEN a ELSE b

OnRookLine(a, b) == a # b /\ (a[1] = b[1] \/ a[2] = b[2])

OnBishopLine(a, b) == a # b /\ Abs(a[1] - b[1]) = Abs(a[2] - b[2])

\* The squares strictly between two squares of one line
Between(a, b) ==
    LET n == Max(Abs(b[1] - a[1]), Abs(b[2] - a[2]))
        df == IF b[1] > a[1] THEN 1 ELSE IF b[1] < a[1] THEN -1 ELSE 0
        dr == IF b[2] > a[2] THEN 1 ELSE IF b[2] < a[2] THEN -1 ELSE 0
    IN  {Square(a[1] + k * df, a[2] + k * dr) : k \in 1..(n - 1)}

ClearLine(board, a, b) == \A sq \in Between(a, b) : Get(board, sq) = ""

\* The white piece p on square a attacks square b
PieceAttacks(board, p, a, b) ==
    CASE p = "P" -> b[2] = a[2] + 1 /\ Abs(b[1] - a[1]) = 1
      [] p = "K" -> a # b /\ Abs(b[1] - a[1]) <= 1 /\ Abs(b[2] - a[2]) <= 1
      [] p = "N" -> {Abs(b[1] - a[1]), Abs(b[2] - a[2])} = {1, 2}
      [] p = "R" -> OnRookLine(a, b) /\ ClearLine(board, a, b)
      [] p = "B" -> OnBishopLine(a, b) /\ ClearLine(board, a, b)
      [] p = "Q" -> (OnRookLine(a, b) \/ OnBishopLine(a, b)) /\ ClearLine(board, a, b)
      [] OTHER -> FALSE

AttackedByWhite(board, sq) ==
    \E a \in BoardSquares : PieceAttacks(board, Get(board, a), a, sq)

\* The position after the piece on start has moved to end
PlayMove(board, start, end, promotePiece) ==
    Set(Set(board, start, ""), end,
        IF promotePiece = "" THEN Get(board, start) ELSE promotePiece)

\* The squares the black king on k may legally move to
KingReplies(board, k) ==
    {t \in BoardSquares :
        /\ t # k /\ Abs(t[1] - k[1]) <= 1 /\ Abs(t[2] - k[2]) <= 1
        /\ ~Black(Get(board, t))
        /\ ~AttackedByWhite(Set(Set(board, k, ""), t, "k"), t)}

\* 1: no check, 2: check, 3: checkmate, 0: no such status (this reading of
\* the rules takes the black king to be black's only piece)
TerminalStatus(board) ==
    LET kings == SquaresWith(board, "k")
        k == CHOOSE sq \in kings : TRUE
    IN  IF Cardinality(kings) # 1 \/ \E sq \in BoardSquares : Black(Get(board, sq)) /\ sq # k
        THEN 0
        ELSE IF ~AttackedByWhite(board, k) THEN 1
        ELSE IF KingReplies(board, k) # {} THEN 2
        ELSE 3

\* The slots the last step filled: <<i, j>> is moveGroup[i - 1][j - 1]
Slots == {<<i, j>> : i \in 1..2, j \in 1..3}

Produced(slot) == last # None /\ last.capture = slot[1] /\ last.filled[slot[2]]

Position(slot) == moveGroups[<<last.call.kind, last.call.key>>][slot[1]][slot[2]]

PositionAfter(slot) ==
    PlayMove(Position(slot), last.call.startSquare, last.call.endSquare,
             last.call.promotePiece)

----------------------------------------------------------------------------
(* Claims *)

\* C1: every position produced for a variant has the variant's terminal
\* status once the requested move is played on it: no check, check with a
\* legal reply, checkmate
C1_TerminalStatus ==
    \A slot \in Slots : Produced(slot) => TerminalStatus(PositionAfter(slot)) = slot[2]

C1_Witness ==
    /\ Produced(<<2, 3>>) /\ Produced(<<2, 2>>) /\ Produced(<<2, 1>>)
    /\ TerminalStatus(PositionAfter(<<2, 3>>)) = 3
    /\ TerminalStatus(PositionAfter(<<2, 2>>)) = 2

\* C3: every produced position is legal with white to move: one king of
\* each colour, the kings not on adjacent squares, the black king not
\* attacked by a white piece
C3_LegalPosition ==
    \A slot \in Slots : Produced(slot) =>
        LET board == Position(slot)
            whiteKings == SquaresWith(board, "K")
            blackKings == SquaresWith(board, "k")
        IN  /\ Cardinality(whiteKings) = 1
            /\ Cardinality(blackKings) = 1
            /\ \A w \in whiteKings : \A b \in blackKings :
                   /\ ~isAdjacent(w, b, 1)
                   /\ ~AttackedByWhite(board, b)

\* A checkmate position with a discovered attacker and box-in pieces, added
\* after the attacked squares were computed, and the black king not attacked
C3_Witness ==
    /\ Produced(<<1, 3>>)
    /\ last.discovered[3] # None
    /\ \E sq \in BoardSquares \ {last.call.startSquare, last.discovered[3][2]} :
           Get(Position(<<1, 3>>), sq) \in {"R", "B", "N"}
    /\ Cardinality(SquaresWith(Position(<<1, 3>>), "K")) = 1
    /\ \A b \in SquaresWith(Position(<<1, 3>>), "k") : ~AttackedByWhite(Position(<<1, 3>>), b)

\* The squares the pieces of the call stand on, and the squares the call
\* reserves: the end square, each piece's square and, but for knights, the
\* squares between the piece and the end square
PlacedSquares == {last.call.startSquare} \cup {last.call.otherSquares[k] : k \in 1..Len(last.call.otherSquares)}

MovingPiece == curPiece

ReservedSquares ==
    {last.call.endSquare} \cup PlacedSquares
    \cup UNION {IF MovingPiece = "N" THEN {} ELSE Between(sq, last.call.endSquare) : sq \in PlacedSquares}

DiscoveredSquares(slot) ==
    IF last.discovered[slot[2]] = None THEN {} ELSE {last.discovered[slot[2]][2]}

KingNeighbours(board) ==
    {sq \in BoardSquares : \E k \in SquaresWith(board, "k") : sq # k /\ isAdjacent(sq, k, 1)}

\* The squares holding a piece of the box-in construction: a rook, bishop or
\* knight that is neither a piece of the call nor the discovered attacker
BoxInSquares(slot) ==
    {sq \in BoardSquares \ (PlacedSquares \cup DiscoveredSquares(slot)) :
        Get(Position(slot), sq) \in {"R", "B", "N"}}

\* C8: in a position built with the box-in construction, no square the call
\* reserved holds a piece of the construction (a reserved square holds what
\* it held before: the moving piece, a companion, the capture placeholder
\* or nothing), and the moving piece, the companions and the discovered
\* attacker stand on their squares
C8_BoxInKeepsReserved ==
    \A slot \in Slots : (Produced(slot) /\ BoxInSquares(slot) # {}) =>
        /\ BoxInSquares(slot) \cap ReservedSquares = {}
        /\ \A sq \in PlacedSquares : Get(Position(slot), sq) = MovingPiece
        /\ \A sq \in DiscoveredSquares(slot) :
               Get(Position(slot), sq) = last.discovered[slot[2]][1]
        /\ \A sq \in ReservedSquares \ PlacedSquares :
               Get(Position(slot), sq) = IF sq = last.call.endSquare /\ slot[1] = 2 THEN "n" ELSE ""

C8_Witness ==
    \E slot \in Slots :
        /\ Produced(slot) /\ Cardinality(BoxInSquares(slot)) >= 3
        /\ Len(last.call.otherSquares) >= 1
        /\ DiscoveredSquares(slot) # {}

\* C10: a slot that holds a position holds the same position after every
\* step; in particular a call on a group whose six slots are filled changes
\* nothing
C10_WriteOnce ==
    [][\A g \in DisambiguationGroups : \A slot \in Slots :
           moveGroups[g][slot[1]][slot[2]] # None =>
               moveGroups'[g][slot[1]][slot[2]] = moveGroups[g][slot[1]][slot[2]]]_vars

\* A call has met a filled slot and has filled another one
C10_Witness ==
    /\ last # None
    /\ \E slot \in Slots : last.capture = slot[1] /\ ~Produced(slot) /\ Position(slot) # None
    /\ \E slot \in Slots : Produced(slot)

\* What a produced position holds on the squares of the call, of the
\* discovered attacker and of the kings: the moving piece and its
\* companions, the attacker, one king of each colour
InventoryPlaced(slot) ==
    /\ \A sq \in PlacedSquares : Get(Position(slot), sq) = MovingPiece
    /\ \A sq \in DiscoveredSquares(slot) :
           Get(Position(slot), sq) = last.discovered[slot[2]][1]
    /\ Cardinality(SquaresWith(Position(slot), "k")) = 1
    /\ Cardinality(SquaresWith(Position(slot), "K") \ PlacedSquares) = IF MovingPiece = "K" THEN 0 ELSE 1

\* The squares that hold a piece that is neither a piece of the call, nor
\* the discovered attacker, nor a king, nor a piece of the box-in
\* construction of a checkmate (a rook, bishop or knight next to the black king)
OtherPieces(slot) ==
    {sq \in BoardSquares \ (PlacedSquares \cup DiscoveredSquares(slot)) :
        /\ Get(Position(slot), sq) \notin {"", "K", "k"}
        /\ ~(/\ slot[2] = 3
             /\ sq \in KingNeighbours(Position(slot))
             /\ Get(Position(slot), sq) \in {"R", "B", "N"})}

\* C9 as claimed: a produced position holds the moving piece, the
\* companions, the two kings, the discovered attacker and the box-in
\* pieces, and no other piece
C9_Inventory ==
    \A slot \in Slots : Produced(slot) => (InventoryPlaced(slot) /\ OtherPieces(slot) = {})

\* C9, amended: as claimed in the no-capture variants; in the capture
\* variants the position holds one more piece, the black knight that stands
\* on the end square to be captured
C9_InventoryWithPlaceholder ==
    \A slot \in Slots : Produced(slot) =>
        /\ InventoryPlaced(slot)
        /\ OtherPieces(slot) = IF slot[1] = 2 THEN {last.call.endSquare} ELSE {}
        /\ slot[1] = 2 => Get(Position(slot), last.call.endSquare) = "n"

C9_Witness ==
    /\ Produced(<<2, 3>>)
    /\ BoxInSquares(<<2, 3>>) # {}
    /\ Get(Position(<<2, 3>>), last.call.endSquare) = "n"

\* The black pieces the positions hold attack as a king and as a knight do
AttackedByBlack(board, sq) ==
    \E a \in BoardSquares :
        \/ Get(board, a) = "k" /\ PieceAttacks(board, "K", a, sq)
        \/ Get(board, a) = "n" /\ PieceAttacks(board, "N", a, sq)

\* The piece on square a may move to b: it reaches b, b holds no white
\* piece, and the move leaves the white king unattacked
LegalMove(board, a, b) ==
    /\ PieceAttacks(board, Get(board, a), a, b)
    /\ ~White(Get(board, b))
    /\ LET after == PlayMove(board, a, b, "")
       IN  \A w \in SquaresWith(after, "K") : ~AttackedByBlack(after, w)

\* The pieces of the moving piece's kind that may move to the end square
Candidates(slot) ==
    {sq \in SquaresWith(Position(slot), MovingPiece) :
        LegalMove(Position(slot), sq, last.call.endSquare)}

\* The qualifier short algebraic notation requires for the move from start
RequiredQualifier(candidates, start) ==
    IF candidates \ {start} = {} THEN <<IF MovingPiece = "K" THEN "king" ELSE "plain", 0>>
    ELSE IF \A sq \in candidates \ {start} : sq[1] # start[1] THEN <<"file", start[1]>>
    ELSE IF \A sq \in candidates \ {start} : sq[2] # start[2] THEN <<"rank", start[2]>>
    ELSE <<"square", start[1] * 8 + start[2]>>

EmittedQualifier == <<last.call.kind, last.call.key>>

\* C2 as claimed: the pieces that may move to the end square are the piece
\* on the start square and the companions, and the qualifier of the
\* position's group is the one the notation requires
C2_MinimalDisambiguation ==
    \A slot \in Slots : Produced(slot) =>
        /\ Candidates(slot) = PlacedSquares
        /\ RequiredQualifier(Candidates(slot), last.call.startSquare) = EmittedQualifier

\* C2, amended: the qualifier of the position's group is the one the
\* notation requires for the pieces that may move to the end square; these
\* are the piece on the start square, the companions and, in checkmate
\* positions of a rook move, rooks of the box-in construction
C2_RequiredQualifier ==
    \A slot \in Slots : Produced(slot) =>
        /\ RequiredQualifier(Candidates(slot), last.call.startSquare) = EmittedQualifier
        /\ PlacedSquares \subseteq Candidates(slot)
        /\ Candidates(slot) \ PlacedSquares \subseteq BoxInSquares(slot)
        /\ Candidates(slot) # PlacedSquares => (MovingPiece = "R" /\ slot[2] = 3)

\* A box-in rook may move to the end square, and the qualifier is still
\* the required one
C2_Witness ==
    \E slot \in Slots :
        /\ Produced(slot)
        /\ Candidates(slot) # PlacedSquares
        /\ RequiredQualifier(Candidates(slot), last.call.startSquare) = EmittedQualifier
        /\ last.call.kind = "file"

\* C6: the move list of a piece and an end square never holds the same
\* notation twice
C6_DistinctNotations ==
    \A a \in 1..Len(movesSquare) : \A b \in 1..Len(movesSquare) :
        a # b => movesSquare[a][1] # movesSquare[b][1]

\* The list is returned with notations of the four kinds of group
C6_Witness ==
    /\ ins = 82
    /\ LET stats == StatsAt(curEndSquare)
       IN  /\ stats.plainMove
           /\ \E f \in 1..8 : stats.fileMove[f]
           /\ \E r \in 1..8 : stats.rankMove[r]
           /\ stats.squareMove # {}

\* The two rooks of the claim, the calls made for them, and the positions of
\* the move list under the notations of the plain group
RookD1 == Square(3, 0)

RookA4 == Square(0, 3)

PairCalls ==
    {k \in 1..Len(calls) :
        /\ Len(calls[k].otherSquares) = 1
        /\ {calls[k].startSquare, calls[k].otherSquares[1]} = {RookD1, RookA4}}

PairKinds == {calls[k].kind : k \in PairCalls}

Notations == {movesSquare[k][1] : k \in 1..Len(movesSquare)}

UnqualifiedRd4 ==
    {k \in 1..Len(movesSquare) :
        \E capture \in {<<>>, <<"x">>} : \E j \in 1..3 :
            movesSquare[k][1] = <<"R">> \o capture \o <<"d", "4">> \o FINAL_SYMBOL[j]}

NoUnqualifiedWithBoth ==
    \A k \in UnqualifiedRd4 :
        LET board == fenToChessboard(movesSquare[k][2])
        IN  ~(Get(board, RookD1) = "R" /\ Get(board, RookA4) = "R")

RooksToD4 == curPiece = "R" /\ curEndSquare = Square(3, 3)

Returned == ins = 82

\* C7 as claimed: the pair of rooks on d1 and a4 is given a file-qualified
\* and a rank-qualified notation, and no position under the unqualified
\* notation holds both rooks
C7_FileAndRank ==
    RooksToD4 => (PairKinds = {"file", "rank"} /\ NoUnqualifiedWithBoth)

\* C7, amended: the pair of rooks on d1 and a4 is given the two
\* file-qualified notations Rdd4 and Rad4 and no rank-qualified one, both
\* notations are in the move list that is returned, and no position under
\* the unqualified notation holds both rooks
C7_TwoFileNotations ==
    RooksToD4 =>
        /\ {<<calls[k].kind, calls[k].key, calls[k].startSquare>> : k \in PairCalls}
               = {<<"file", 3, RookD1>>, <<"file", 0, RookA4>>}
        /\ Returned => {<<"R", "d", "d", "4">>, <<"R", "a", "d", "4">>} \subseteq Notations
        /\ NoUnqualifiedWithBoth

C7_Witness ==
    /\ RooksToD4
    /\ Returned
    /\ Cardinality(UnqualifiedRd4) = 6
    /\ Cardinality(PairCalls) = 2

\* The syntax of a position string: eight rank groups of piece codes and
\* of digits 1 to 8 that describe 8 squares each, the side to move, and
\* the fixed fields
PieceCodes == {"K", "Q", "R", "B", "N", "P", "k", "q", "r", "b", "n", "p"}

RunLengths == {"1", "2", "3", "4", "5", "6", "7", "8"}

RunLength(c) == CHOOSE n \in 1..8 : <<"1", "2", "3", "4", "5", "6", "7", "8">>[n] = c

RECURSIVE GroupSquares(_)
GroupSquares(group) ==
    IF group = <<>> THEN 0
    ELSE (IF group[1] \in RunLengths THEN RunLength(group[1]) ELSE 1)
         + GroupSquares(Tail(group))

ValidRankGroup(group) ==
    /\ \A k \in 1..Len(group) : group[k] \in PieceCodes \cup RunLengths
    /\ GroupSquares(group) = 8

\* No two runs of empty squares follow each other
MaximalRuns(group) ==
    \A k \in 1..(Len(group) - 1) : ~(group[k] \in RunLengths /\ group[k + 1] \in RunLengths)

Fields(string) == split(string, " ")

RankGroups(string) == split(Fields(string)[1], "/")

ValidPositionString(string) ==
    /\ Len(Fields(string)) = 6
    /\ Len(RankGroups(string)) = 8
    /\ \A k \in 1..8 : ValidRankGroup(RankGroups(string)[k])
    /\ Fields(string)[2] \in {<<"w">>, <<"b">>}
    /\ SubSeq(Fields(string), 3, 6) = << <<"-">>, <<"-">>, <<"0">>, <<"1">> >>

\* The string was parsed and written with no flip and no swap
WrittenBack ==
    /\ fenOutput # None
    /\ ~fenOutput.flipFiles /\ ~fenOutput.flipRanks /\ ~fenOutput.swapPlayers

\* C4 as claimed: a valid position string that is parsed and written with
\* no flip and no swap is written as it was
C4_RoundTrip ==
    (WrittenBack /\ ValidPositionString(fenInput)) => fenOutput.fen = fenInput

\* C4, amended: a valid position string with white to move, in which no
\* rank group holds two runs of empty squares next to each other, is
\* written as it was
C4_RoundTripWhiteMaximalRuns ==
    (/\ WrittenBack
     /\ ValidPositionString(fenInput)
     /\ Fields(fenInput)[2] = <<"w">>
     /\ \A k \in 1..8 : MaximalRuns(RankGroups(fenInput)[k]))
        => fenOutput.fen = fenInput

C4_Witness ==
    /\ WrittenBack
    /\ ValidPositionString(fenInput)
    /\ Fields(fenInput)[2] = <<"w">>
    /\ RankGroups(fenInput)[1] = <<"R", "n", "5", "Q">>
    /\ RankGroups(fenInput)[8] = <<"3", "K", "4">>
    /\ fenOutput.fen = fenInput

\* The reflections of a notation and of a position, from the parts of the
\* sample line
FILES == <<"a", "b", "c", "d", "e", "f", "g", "h">>

RANKS == <<"1", "2", "3", "4", "5", "6", "7", "8">>

IndexIn(seq, c) == CHOOSE k \in 1..Len(seq) : seq[k] = c

ReflectCoords(coords, flipFiles, flipRanks) ==
    [k \in 1..Len(coords) |->
        IF InSeq(coords[k], FILES)
        THEN (IF flipFiles THEN FILES[9 - IndexIn(FILES, coords[k])] ELSE coords[k])
        ELSE (IF flipRanks THEN RANKS[9 - IndexIn(RANKS, coords[k])] ELSE coords[k])]

\* The notation of the sample reflected, as a capture or not
ReflectedNotation(sample, flipFiles, flipRanks, capture) ==
    sample.piece \o ReflectCoords(sample.dis, flipFiles, flipRanks)
    \o (IF capture THEN <<"x">> ELSE <<>>)
    \o ReflectCoords(sample.end, flipFiles, flipRanks) \o sample.rest

\* The squares of a rank group, from file a to file h
RECURSIVE GroupCells(_)
GroupCells(group) ==
    IF group = <<>> THEN <<>>
    ELSE (IF group[1] \in RunLengths THEN [k \in 1..RunLength(group[1]) |-> ""]
          ELSE <<group[1]>>)
         \o GroupCells(Tail(group))

SampleEndSquare(sample) ==
    Square(IndexIn(FILES, sample.end[1]) - 1, IndexIn(RANKS, sample.end[2]) - 1)

\* What the sample's position holds on a square, with a black knight on the
\* end square in the derived capture
SamplePiece(sample, square, derived) ==
    IF derived /\ square = SampleEndSquare(sample) THEN "n"
    ELSE GroupCells(sample.ranks[8 - square[2]])[square[1] + 1]

\* The position string of the reflected position: with the colours and
\* the side to move swapped for a pawn's notation reflected in rank
ReflectedPosition(sample, flipFiles, flipRanks, derived) ==
    LET piece(square) ==
            SamplePiece(sample,
                        Square(IF flipFiles THEN 7 - square[1] ELSE square[1],
                               IF flipRanks THEN 7 - square[2] ELSE square[2]),
                        derived)
    IN  chessboardToFen(BoardOf(piece), FALSE, FALSE, flipRanks /\ sample.piece = <<>>)

Flips == {<<flipFiles, flipRanks>> : flipFiles \in BOOLEAN, flipRanks \in BOOLEAN}

SampleOf(line) ==
    CHOOSE k \in 1..Len(ManualSamples) : LineOf(ManualSamples[k]) = line

\* The samples of the lines of the file that hold a move, by line number
MoveLines ==
    {n \in 1..Len(fileManualMoves) :
        ManualSamples[SampleOf(fileManualMoves[n])].kind = "move"}

LineSample(n) == ManualSamples[SampleOf(fileManualMoves[n])]

\* The notations a line enters into the table
Written(n) ==
    LET sample == LineSample(n)
    IN  IF sample.kind = "castle" THEN {sample.move}
        ELSE IF sample.kind # "move" THEN {}
        ELSE {ReflectedNotation(sample, flip[1], flip[2], sample.capture) : flip \in Flips}
             \cup (IF ~sample.capture /\ sample.piece # <<>>
                   THEN {ReflectedNotation(sample, flip[1], flip[2], TRUE) : flip \in Flips}
                   ELSE {})

Overwritten(n, move) == \E later \in (n + 1)..Len(fileManualMoves) : move \in Written(later)

\* The end square of a move that is turned into a capture holds no piece
EndSquareEmpty(sample) ==
    (~sample.capture /\ sample.piece # <<>>)
        => SamplePiece(sample, SampleEndSquare(sample), FALSE) = ""

Loaded == lineNo = Len(fileManualMoves) /\ error = None

Entered(move, fen) == move \in DOMAIN MANUAL_MOVES /\ MANUAL_MOVES[move] = fen

RECURSIVE Words(_)
Words(line) ==
    IF line = <<>> THEN <<>>
    ELSE IF line[1] = " " THEN Words(Tail(line))
    ELSE LET isLetter(c) == c # " "
             n == leading(line, isLetter, 1)
         IN  <<SubSeq(line, 1, n)>> \o Words(SubSeq(line, n + 1, Len(line)))

\* A line of the form <notation> <position-string> splits into two tokens,
\* its first word and what follows it; a line of fewer than two words
\* does not
TwoTokens(line) == Len(Words(line)) >= 2

Ignorable(line) == (line # <<>> /\ line[1] = "#") \/ ~TwoTokens(line)

\* C11: a step that reads a line that starts with the comment marker, or
\* that does not split into two tokens, leaves the table as it is and
\* raises no error
C11_MalformedLineIgnored ==
    [][(lineNo' = lineNo + 1 /\ Ignorable(fileManualMoves[lineNo + 1]))
          => (MANUAL_MOVES' = MANUAL_MOVES /\ error' = None)]_vars

\* The position string of a line that splits into two tokens
PositionString(line) ==
    LET isSpace(c) == c = " "
        isLetter(c) == c # " "
        start == leading(line, isSpace, 1)
        word == leading(SubSeq(line, start + 1, Len(line)), isLetter, 1)
        rest == SubSeq(line, start + word + 1, Len(line))
    IN  SubSeq(rest, leading(rest, isSpace, 1) + 1, Len(rest))

\* Wrong number of rank groups, a rank group that does not describe
\* exactly 8 squares, or a character that is no piece code and no digit
MalformedPosition(string) ==
    \/ Len(RankGroups(string)) # 8
    \/ \E k \in 1..Len(RankGroups(string)) : ~ValidRankGroup(RankGroups(string)[k])

\* A line of a move other than a castle move
MovePositionLine(line) ==
    /\ ~Ignorable(line)
    /\ Words(line)[1][1] # "O"

\* C12: a step that reads the line of a move other than a castle move
\* whose position string is malformed ends the loading with an error and
\* stores nothing in the table
C12_MalformedPositionFails ==
    [][(/\ lineNo' = lineNo + 1
        /\ MovePositionLine(fileManualMoves[lineNo + 1])
        /\ MalformedPosition(PositionString(fileManualMoves[lineNo + 1])))
          => (error' # None /\ MANUAL_MOVES' = MANUAL_MOVES)]_vars

\* C13: the generation for a piece and an end square terminates: the walks
\* over the start squares, the walks along the lines of attack, the scans
\* for the kings and the passes for the discovered attackers come to their
\* end, and the generator returns, without an error
C13_Terminates == <>(walk.loop = "done")

\* A queen's generator has returned: it has walked its eight directions and
\* the lines of attack of calls with three queens
C13_Witness ==
    /\ walk.loop = "done"
    /\ curPiece = "Q"
    /\ Len(walk.startSquares) >= 21
    /\ \E k \in 1..Len(calls) : Len(calls[k].otherSquares) = 2
    /\ last # None /\ last.capture = 2

Corner(sq) == sq[1] \in {0, 7} /\ sq[2] \in {0, 7}

\* The knight on the end square attacks a corner square
AttacksCorner(endSquare) ==
    \E k \in 1..Len(KNIGHT_JUMPS) : Corner(SquareAdd(endSquare, KNIGHT_JUMPS[k]))

\* The position holds the two kings and the knights of the call, and
\* neither a piece of the box-in construction nor a discovered attacker
OnlyKingsAndKnights(slot) == BoxInSquares(slot) = {} /\ DiscoveredSquares(slot) = {}

CheckmateSlots == {<<1, 3>>, <<2, 3>>}

Sentinel == Square(-1, -1)

\* The boards at hand: those the attack fields are computed of, and the
\* positions the last step produced
AttackFieldBoards ==
    {board \in {chessboardBefore, chessboardAfter} : board # None}
    \cup {Position(slot) : slot \in {s \in Slots : Produced(s)}}

\* The pairs <<a, b>>: b is a landing square of the jump piece on a
Landings(board) ==
    {pair \in BoardSquares \X BoardSquares :
        /\ Get(board, pair[1]) \in {"P", "N", "K"}
        /\ PieceAttacks(board, Get(board, pair[1]), pair[1], pair[2])}

\* No other piece of the board attacks b
OnlyAttacker(board, a, b) ==
    \A c \in BoardSquares \ {a} : ~PieceAttacks(board, Get(board, c), c, b)

SentinelMarked(board, attackedSquares) ==
    \A pair \in Landings(board) : Get(attackedSquares, pair[2]) = Sentinel

JumpMarked(board, attackedSquares) ==
    \A pair \in Landings(board) :
        /\ Get(attackedSquares, pair[2]) # None
        /\ OnlyAttacker(board, pair[1], pair[2]) =>
               Get(attackedSquares, pair[2]) =
                   IF Get(board, pair[1]) = "N" THEN Sentinel ELSE pair[1]

\* C15 as claimed: in the attack field of a position every landing square
\* of a pawn, knight or king is marked with the sentinel
C15_JumpSentinel ==
    \A board \in AttackFieldBoards : SentinelMarked(board, getAttackedSquares(board))

\* C15, amended: in the attack field of a position every landing square of
\* a pawn, knight or king is marked; where no other piece attacks it, a
\* knight's landing square holds the sentinel and a pawn's or king's
\* landing square holds the square of the pawn or king
C15_JumpMarked ==
    \A board \in AttackFieldBoards : JumpMarked(board, getAttackedSquares(board))

\* The landing squares of a pawn after its move hold the pawn's square
C15_Witness ==
    /\ curPiece = "P"
    /\ chessboardAfter # None
    /\ \E pair \in Landings(chessboardAfter) :
           /\ Get(chessboardAfter, pair[1]) = "P"
           /\ Get(getAttackedSquares(chessboardAfter), pair[2]) = pair[1]

\* The enumerator of the start squares has returned its list
Enumerated == walk # None /\ walk.loop \notin {"start", "walk"} /\ curPiece # "P"

\* The square from which the jump with the index id leads to the end square
JumpOrigin(e, jumps, id) == Square(e[1] - jumps[id + 1][1], e[2] - jumps[id + 1][2])

\* The on-board squares other than e on the lines of the piece through e
LineSquares(piece, e) ==
    {b \in BoardSquares :
        \/ piece \in {"R", "Q"} /\ OnRookLine(e, b)
        \/ piece \in {"B", "Q"} /\ OnBishopLine(e, b)}

\* Two squares of the lines through e lie on the same ray from e
SameRay(e, a, b) == a = b \/ a \in Between(e, b) \/ b \in Between(e, a)

ListedSquares(list) == {Sq(list[k]) : k \in 1..Len(list)}

ExactJumps(e, jumps, list) ==
    /\ \A k \in 1..Len(list) :
           /\ list[k][3] \in 0..(Len(jumps) - 1)
           /\ Sq(list[k]) = JumpOrigin(e, jumps, list[k][3])
    /\ ListedSquares(list) = {JumpOrigin(e, jumps, id) : id \in 0..(Len(jumps) - 1)} \cap BoardSquares
    /\ \A k \in 1..Len(list) : \A n \in 1..Len(list) : k # n => list[k][3] # list[n][3]

ExactLines(piece, e, list) ==
    /\ ListedSquares(list) = LineSquares(piece, e)
    /\ \A k \in 1..Len(list) : \A n \in 1..Len(list) :
           /\ k # n => Sq(list[k]) # Sq(list[n])
           /\ list[k][3] = list[n][3] <=> SameRay(e, Sq(list[k]), Sq(list[n]))

\* C16: the list of start squares for an end square e is, for a jump piece,
\* the on-board squares e minus a jump, each tagged with the index of its
\* jump and no two with the same tag; for a sliding piece, the on-board
\* squares other than e on the piece's lines through e, each once, two of
\* them with the same tag exactly when they lie on the same ray from e
C16_ExactInverse ==
    Enumerated =>
        IF isJump(curPiece)
        THEN ExactJumps(curEndSquare, movement(curPiece), walk.startSquares)
        ELSE ExactLines(curPiece, curEndSquare, walk.startSquares)

\* The list of a queen on d4: 27 squares on 8 rays
C16_Witness ==
    /\ Enumerated
    /\ curPiece = "Q"
    /\ Len(walk.startSquares) = 27
    /\ \E k \in 1..27 : \E n \in 1..27 :
           k # n /\ walk.startSquares[k][3] = walk.startSquares[n][3]
    /\ Cardinality({walk.startSquares[k][3] : k \in 1..27}) = 8

\* The directionId of a start square of the current generator
TagOf(square) ==
    LET list == getStartSquares(curPiece, curEndSquare)
    IN  list[CHOOSE k \in 1..Len(list) : Sq(list[k]) = square][3]

\* The squares a piece on square a passes on its way to the end square e
Path(piece, a, e) == IF piece = "N" THEN {} ELSE Between(a, e)

\* A call of updateMoveGroup with companions is being made
MultiPieceCall == pc <= Len(calls) /\ calls[pc].otherSquares # <<>>

DistinctTags(pieces) ==
    \A k \in 1..Len(pieces) : \A n \in 1..Len(pieces) :
        k # n => TagOf(pieces[k]) # TagOf(pieces[n])

NoPieceOnPath(piece, pieces, e) ==
    \A k \in 1..Len(pieces) : \A n \in 1..Len(pieces) :
        k # n => pieces[k] \notin Path(piece, pieces[n], e)

\* C17: in a call for a group of two pieces (file or rank) the two pieces
\* have distinct tags; in a call for a group of three pieces (square) the
\* three tags are pairwise distinct and the primary shares its file with
\* the first companion and its rank with the second; in both no piece
\* stands on the path of another piece to the end square
C17_NoSharedRay ==
    MultiPieceCall =>
        /\ DistinctTags(PiecesOf(calls[pc]))
        /\ Len(calls[pc].otherSquares) = (IF calls[pc].kind = "square" THEN 2 ELSE 1)
        /\ calls[pc].kind \in {"file", "rank", "square"}
        /\ calls[pc].kind = "square" =>
               /\ calls[pc].startSquare[1] = calls[pc].otherSquares[1][1]
               /\ calls[pc].startSquare[2] = calls[pc].otherSquares[2][2]
        /\ NoPieceOnPath(curPiece, PiecesOf(calls[pc]), calls[pc].endSquare)

\* A call for three queens, one of them not next to the end square
C17_Witness ==
    /\ MultiPieceCall
    /\ curPiece = "Q"
    /\ calls[pc].kind = "square"
    /\ Between(calls[pc].startSquare, calls[pc].endSquare) # {}
    /\ Cardinality({TagOf(PiecesOf(calls[pc])[k]) : k \in 1..3}) = 3

\* updateMoveGroup has placed the pieces of its call
PiecesPlaced == step[1] \in {1, 2} /\ keepFree # None

\* The squares keepFree marks
KeptFree == {sq \in BoardSquares : Get(keepFree, sq)}

\* The reserved set of the claim: only rook, bishop and queen reserve the
\* squares between them and the end square
ReservedSliding ==
    {last.call.endSquare} \cup PlacedSquares
    \cup UNION {IF MovingPiece \in {"R", "B", "Q"} THEN Between(sq, last.call.endSquare)
                ELSE {} : sq \in PlacedSquares}

\* C18 as claimed: the squares updateMoveGroup reserves are the end square,
\* the square of each placed piece and, for rook, bishop and queen only,
\* the squares between the piece and the end square
C18_ReservedSliding == PiecesPlaced => KeptFree = ReservedSliding

\* C18, amended: the squares updateMoveGroup reserves are the end square,
\* the square of each placed piece and, for every piece but the knight,
\* the squares between the piece and the end square: none for a king or a
\* pawn next to the end square, one for a pawn that moves two squares
C18_ReservedSet == PiecesPlaced => KeptFree = ReservedSquares

\* A pawn that moves two squares: the square it passes is reserved
C18_Witness ==
    /\ PiecesPlaced
    /\ curPiece = "P"
    /\ last.call.kind = "double"
    /\ Cardinality(KeptFree) = 3

\* What the end square holds in the positions the last step produced and,
\* during the calls of updateMoveGroupCapture, on the board the attack
\* field before the move is computed of: captured for the capture moves,
\* nothing for the others
EndSquareHolds(captured) ==
    /\ \A slot \in Slots : Produced(slot) =>
           Get(Position(slot), last.call.endSquare) = IF slot[1] = 2 THEN captured ELSE ""
    /\ step[1] \in {1, 2} =>
           Get(chessboardBefore, calls[pc].endSquare) = IF step[1] = 2 THEN captured ELSE ""

\* C19 as claimed: the end square of a position for a capture holds a black
\* pawn, put there before the attack field before the move is computed; the
\* end square of a position for a move that is no capture is empty
C19_PlaceholderPawn == EndSquareHolds("p")

\* C19, amended: the end square of a position for a capture holds a black
\* knight, put there before the attack field before the move is computed;
\* the end square of a position for a move that is no capture is empty
C19_PlaceholderKnight == EndSquareHolds("n")

\* A position for a capture with check has been produced
C19_Witness ==
    /\ Produced(<<2, 2>>)
    /\ step[1] = 2
    /\ Get(Position(<<2, 2>>), last.call.endSquare) = "n"
    /\ Get(chessboardBefore, calls[pc].endSquare) = "n"

\* The Chebyshev distance of two squares
Chebyshev(a, b) == Max(Abs(a[1] - b[1]), Abs(a[2] - b[2]))

\* A position the last step produced for a move of the king
KingMovePositions == {slot \in Slots : curPiece = "K" /\ Produced(slot)}

\* C20 as claimed: in a position for a move of the king the black king is
\* not within Chebyshev distance 2 of the white king
C20_KingsTwoApart ==
    \A slot \in KingMovePositions :
        \A k \in SquaresWith(Position(slot), "k") : \A w \in SquaresWith(Position(slot), "K") :
            Chebyshev(k, w) > 2

\* C20, amended: in a position for a move of the king the black king is
\* not next to the white king (Chebyshev distance at most 1), neither to
\* its square in the position nor to the end square of its move
C20_KingsNotAdjacent ==
    \A slot \in KingMovePositions :
        \A k \in SquaresWith(Position(slot), "k") :
            /\ \A w \in SquaresWith(Position(slot), "K") : Chebyshev(k, w) > 1
            /\ Chebyshev(k, last.call.endSquare) > 1

\* A position for a move of the king, the black king at distance 2 of the
\* white king
C20_Witness ==
    \E slot \in KingMovePositions :
        \E k \in SquaresWith(Position(slot), "k") :
            \E w \in SquaresWith(Position(slot), "K") : Chebyshev(k, w) = 2

\* The discovered attacker of a position the last step produced: a rook or
\* a bishop that is not of the moving piece's kind, never for a queen, on a
\* square of the board that the call did not reserve, next to the start
\* square in one of the attacker's directions; the position holds it, and
\* no piece but those of the call, the kings, the box-in construction and
\* the piece to be captured
TrialPiece(slot) ==
    /\ last.discovered[slot[2]] # None =>
           LET piece == last.discovered[slot[2]][1]
               sq == last.discovered[slot[2]][2]
               df == Abs(sq[1] - last.call.startSquare[1])
               dr == Abs(sq[2] - last.call.startSquare[2])
           IN  /\ piece \in {"R", "B"} \ {curPiece}
               /\ curPiece # "Q"
               /\ sq \in BoardSquares \ ReservedSquares
               /\ IF piece = "R" THEN df + dr = 1 ELSE df = 1 /\ dr = 1
               /\ Get(Position(slot), sq) = piece
    /\ OtherPieces(slot) \subseteq {last.call.endSquare}

TrialPieces == \A slot \in Slots : Produced(slot) => TrialPiece(slot)

\* A step of updateMoveGroupCapture that is not its return
CaptureStep == step[1] \in {1, 2} /\ step'[1] = step[1]

\* C21: a pass for a discovered attacker leaves the board before the move,
\* the board after the move and the reserved squares as they were, so
\* updateMoveGroupCapture returns with the values it was entered with; the
\* attacker is a rook or bishop other than the moving piece, never for a
\* queen, on an unreserved square of the board next to the start square in
\* one of its directions, and a stored position holds at most one of them
C21_RetriesUndone ==
    [][/\ CaptureStep => /\ chessboardBefore' = chessboardBefore
                         /\ chessboardAfter' = chessboardAfter
                         /\ keepFree' = keepFree
       /\ TrialPieces']_vars

\* A pass for a discovered attacker has produced a position with check
C21_Witness ==
    /\ step[1] = 1 /\ step[2] >= 2
    /\ Produced(<<1, 2>>)
    /\ last.discovered[2] # None
    /\ Get(Position(<<1, 2>>), last.discovered[2][2]) \in {"R", "B"}
    /\ Get(chessboardBefore, last.discovered[2][2]) = ""

\* The black king's square in a produced position
BlackKing(slot) == CHOOSE k \in SquaresWith(Position(slot), "k") : TRUE

OnEdge(sq) == sq[1] \in {0, 7} \/ sq[2] \in {0, 7}

\* The four squares diagonally next to a square
DiagonalNeighbours(k) ==
    {Square(k[1] + df, k[2] + dr) : df \in {-1, 1}, dr \in {-1, 1}} \cap BoardSquares

\* The board after the move the checkmate position was generated with: the
\* discovered attacker stands on it
BoardAfterWith(slot) ==
    IF last.discovered[slot[2]] = None THEN chessboardAfter
    ELSE Set(chessboardAfter, last.discovered[slot[2]][2], last.discovered[slot[2]][1])

\* The square that has to stay vacant for the attack on the black king
RequiredVacant(slot) == Get(getAttackedSquares(BoardAfterWith(slot)), BlackKing(slot))

\* The checkmate position of the last step was built with the box-in
\* construction around a king that is not on an edge
MiddleBoxIn(slot) ==
    /\ slot[2] = 3
    /\ Produced(slot)
    /\ BoxInSquares(slot) # {}
    /\ ~OnEdge(BlackKing(slot))

\* The rook the construction leaves out
DroppedRook(slot) ==
    IF RequiredVacant(slot) \in DiagonalNeighbours(BlackKing(slot))
    THEN RequiredVacant(slot)
    ELSE Square(BlackKing(slot)[1] - 1, BlackKing(slot)[2] - 1)

\* C22: a checkmate position built with the box-in construction around a
\* king off the edges holds rooks on three of the four squares diagonally
\* next to the king and no other piece of the construction; the square
\* without a rook is the one that has to stay vacant for the attack if that
\* is one of the four, else the last of them in the order of
\* BISHOP_DIRECTIONS; after the move the king is attacked and so is each of
\* the eight squares next to it
C22_MiddleBoxIn ==
    \A slot \in CheckmateSlots : MiddleBoxIn(slot) =>
        /\ BoxInSquares(slot) = DiagonalNeighbours(BlackKing(slot)) \ {DroppedRook(slot)}
        /\ \A sq \in BoxInSquares(slot) : Get(Position(slot), sq) = "R"
        /\ AttackedByWhite(PositionAfter(slot), BlackKing(slot))
        /\ \A sq \in KingNeighbours(PositionAfter(slot)) :
               AttackedByWhite(PositionAfter(slot), sq)
        /\ Cardinality(KingNeighbours(PositionAfter(slot))) = 8

\* The square that has to stay vacant is none of the four: the rook left
\* out is the last one
C22_Witness ==
    \E slot \in CheckmateSlots :
        /\ MiddleBoxIn(slot)
        /\ Cardinality(BoxInSquares(slot)) = 3
        /\ RequiredVacant(slot) \notin DiagonalNeighbours(BlackKing(slot))

\* The checkmate position of the last step was built with the box-in
\* construction around a king on an edge, and the square that has to stay
\* vacant for the attack is one on which a rook was planned
EdgeBoxInVacant(slot) ==
    /\ slot[2] = 3
    /\ Produced(slot)
    /\ BoxInSquares(slot) # {}
    /\ OnEdge(BlackKing(slot))
    /\ RequiredVacant(slot) \in DiagonalNeighbours(BlackKing(slot))

\* The two squares next to both the king k and the vacant square v
BesideBoth(k, v) == {Square(k[1], v[2]), Square(v[1], k[2])}

BishopSquare(slot) ==
    CHOOSE sq \in BesideBoth(BlackKing(slot), RequiredVacant(slot)) : ~OnEdge(sq)

KnightSquare(slot) ==
    CHOOSE sq \in BesideBoth(BlackKing(slot), RequiredVacant(slot)) : OnEdge(sq)

RookSquare(slot) ==
    CHOOSE sq \in DiagonalNeighbours(BlackKing(slot)) : sq # RequiredVacant(slot)

\* The squares of the pieces that attack the black king after the move
Attackers(slot) ==
    {a \in BoardSquares :
        PieceAttacks(PositionAfter(slot), Get(PositionAfter(slot), a), a, BlackKing(slot))}

\* No rook on the vacant square; a bishop next to the king off the edge, a
\* knight next to the king on the edge, both next to the vacant square; a
\* rook on the other planned square; no further piece of the construction
BishopAndKnight(slot) ==
    /\ RequiredVacant(slot) \notin BoxInSquares(slot)
    /\ Get(Position(slot), BishopSquare(slot)) = "B"
    /\ Get(Position(slot), KnightSquare(slot)) = "N"
    /\ Get(Position(slot), RookSquare(slot)) = "R"
    /\ BoxInSquares(slot) = {BishopSquare(slot), KnightSquare(slot), RookSquare(slot)}

\* C23 as claimed: in such a position the rook on the vacant square is left
\* out, a bishop and a knight stand next to the king, and the knight
\* defends the square of the piece that attacks the king
C23_KnightDefendsAttacker ==
    \A slot \in CheckmateSlots : EdgeBoxInVacant(slot) =>
        /\ BishopAndKnight(slot)
        /\ \A a \in Attackers(slot) :
               PieceAttacks(PositionAfter(slot), "N", KnightSquare(slot), a)

\* C23, amended: in such a position the rook on the vacant square is left
\* out, a bishop and a knight stand next to the king, and the knight
\* defends the rook on the other planned square
C23_KnightDefendsRook ==
    \A slot \in CheckmateSlots : EdgeBoxInVacant(slot) =>
        /\ BishopAndKnight(slot)
        /\ PieceAttacks(PositionAfter(slot), "N", KnightSquare(slot), RookSquare(slot))

\* Such a position, the knight not defending the piece that attacks the king
C23_Witness ==
    \E slot \in CheckmateSlots :
        /\ EdgeBoxInVacant(slot)
        /\ Get(Position(slot), KnightSquare(slot)) = "N"
        /\ \E a \in Attackers(slot) :
               ~PieceAttacks(PositionAfter(slot), "N", KnightSquare(slot), a)

----------------------------------------------------------------------------
(* C24: the statistics of an end square *)

\* The notations counted by final symbol in the Stats of a square
Counted(square) ==
    StatsAt(square).finalSymbol[1] + StatsAt(square).finalSymbol[2]
        + StatsAt(square).finalSymbol[3]

\* C24: the notations emitted for the end square are counted in the Stats of
\* the end square, their missing check and checkmate entries are added
\* there, and the Stats of every other square stay as they were created
C24_StatsOfEndSquare ==
    /\ Counted(curEndSquare) = Len(movesSquare)
    /\ \A square \in BoardSquares \ {curEndSquare} : StatsAt(square) = Stats

----------------------------------------------------------------------------
(* C25: the lists of missing moves *)

\* A notation without a final symbol
Quiet(move) == move[Len(move)] \notin {"+", "#"}

Elements(list) == {list[k] : k \in 1..Len(list)}

\* The pairs recorded as missing the checkmate, the check, or both
MissingCheckmate == UNION {Elements(statsBoard[sq].missingMoves.checkmate) : sq \in DOMAIN statsBoard}

MissingCheck == UNION {Elements(statsBoard[sq].missingMoves.check) : sq \in DOMAIN statsBoard}

MissingBoth == UNION {Elements(statsBoard[sq].missingMoves.both) : sq \in DOMAIN statsBoard}

\* The number of entries of the three lists of the Stats of a square
MissingEntries(sq) ==
    Len(statsBoard[sq].missingMoves.checkmate) + Len(statsBoard[sq].missingMoves.check)
        + Len(statsBoard[sq].missingMoves.both)

\* The notations the override table filled: emitted without a position of
\* the move groups
Overridden == Notations \cap DOMAIN MANUAL_MOVES

\* C25: an emitted quiet pair is recorded in 'checkmate' when its check
\* notation was emitted and its checkmate notation was not, in 'check' when
\* the checkmate notation was emitted and the check notation was not, in
\* 'both' when neither was emitted, and in no list when both were emitted;
\* nothing else is recorded, and no pair is recorded twice; emitted includes
\* the notations filled from the override table
C25_MissingLists ==
    /\ \A k \in 1..Len(movesSquare) :
           LET pair == movesSquare[k]
               check == (pair[1] \o <<"+">>) \in Notations
               checkmate == (pair[1] \o <<"#">>) \in Notations
           IN  Quiet(pair[1]) =>
                   /\ pair \in MissingCheckmate <=> (check /\ ~checkmate)
                   /\ pair \in MissingCheck <=> (~check /\ checkmate)
                   /\ pair \in MissingBoth <=> (~check /\ ~checkmate)
    /\ \A pair \in MissingCheckmate \cup MissingCheck \cup MissingBoth :
           Quiet(pair[1]) /\ pair \in Elements(movesSquare)
    /\ \A sq \in DOMAIN statsBoard :
           MissingEntries(sq) =
               Cardinality(Elements(statsBoard[sq].missingMoves.checkmate)
                               \cup Elements(statsBoard[sq].missingMoves.check)
                               \cup Elements(statsBoard[sq].missingMoves.both))

\* An emitted quiet pair whose check notation is emitted with the position
\* of the override table: it is recorded as missing the checkmate alone
C25_Witness ==
    \E j, k \in 1..Len(movesSquare) :
        /\ Quiet(movesSquare[j][1])
        /\ movesSquare[k][1] = movesSquare[j][1] \o <<"+">>
        /\ movesSquare[k][1] \in DOMAIN MANUAL_MOVES
        /\ movesSquare[k][2] = MANUAL_MOVES[movesSquare[k][1]]
        /\ movesSquare[j] \in MissingCheckmate

----------------------------------------------------------------------------
(* C26: the geometry of the pawn notations *)

\* A notation without its final symbol
Core(move) == IF Quiet(move) THEN move ELSE SubSeq(move, 1, Len(move) - 1)

Promotes(move) == Len(Core(move)) > 2 /\ Core(move)[Len(Core(move)) - 1] = "="

PromotedTo(move) == Core(move)[Len(Core(move))]

\* A notation without its final symbol and its promotion suffix
Base(move) == IF Promotes(move) THEN SubSeq(Core(move), 1, Len(Core(move)) - 2) ELSE Core(move)

\* The end square a notation names
NotationEnd(move) == strToSquare(SubSeq(Base(move), Len(Base(move)) - 1, Len(Base(move))))

Captures(move) == \E k \in 1..Len(Base(move)) : Base(move)[k] = "x"

\* A notation that names its start square
Long(move) == Len(Base(move)) = IF Captures(move) THEN 5 ELSE 4

\* The side to move of a position string
SideToMove(fen) ==
    LET first == CHOOSE k \in 1..Len(fen) : fen[k] = " " /\ \A j \in 1..(k - 1) : fen[j] # " "
    IN  fen[first + 1]

\* A rank counted from the side's own first rank, from 0
OwnRank(side, rank) == IF side = "w" THEN rank ELSE 7 - rank

\* An emitted pair whose notation is a legal pawn move of the side to move
PawnGeometry(pair) ==
    LET move == pair[1]
        side == SideToMove(pair[2])
        base == Base(move)
        end == OwnRank(side, NotationEnd(move)[2])
        start == OwnRank(side, strToRank(base[2]))
    IN  /\ side \in {"w", "b"}
        /\ Len(base) \in IF Captures(move) THEN {4, 5} ELSE {2, 4}
        /\ Promotes(move) <=> end = 7
        /\ Promotes(move) => PromotedTo(move) \in {"R", "B", "Q", "N"}
        /\ Captures(move) =>
               /\ base[Len(base) - 2] = "x"
               /\ end >= 2
               /\ Abs(strToFile(base[1]) - NotationEnd(move)[1]) = 1
               /\ Long(move) => start = end - 1
        /\ ~Captures(move) =>
               /\ end >= 2
               /\ Long(move) =>
                      /\ strToFile(base[1]) = NotationEnd(move)[1]
                      /\ \/ start = end - 1
                         \/ start = 1 /\ end = 3

\* The calls of the pawn generator are made and their moves are inserted
PawnsDone == curPiece = "P" /\ ins = Len(calls)

\* C26: every emitted pawn notation is a single step or a capture that ends
\* behind the mover's first two ranks and starts one rank before its end
\* square, or a double step from the mover's second rank to its fourth; it
\* has a promotion suffix exactly on the mover's last rank, and then all
\* four options are emitted
C26_PawnGeometry ==
    /\ \A k \in 1..Len(movesSquare) :
           /\ NotationEnd(movesSquare[k][1]) = curEndSquare
           /\ PawnGeometry(movesSquare[k])
    /\ PawnsDone =>
           \A move \in Notations :
               Promotes(move) =>
                   \A option \in {"R", "B", "Q", "N"} :
                       (Base(move) \o <<"=", option>>) \in Notations

\* The pawn generator has emitted the promotions of a capture on the last
\* rank, with the start square
C26_Witness ==
    /\ PawnsDone
    /\ \E move \in Notations : Promotes(move) /\ Captures(move) /\ Long(move)

----------------------------------------------------------------------------
(* C27: the stored positions and the working boards *)

\* The move groups a step has changed
ChangedGroups == {g \in DOMAIN moveGroups : moveGroups'[g] # moveGroups[g]}

\* The positions of the slots of the moves without capture
QuietPositions ==
    {moveGroups[g][1][j] : g \in DOMAIN moveGroups, j \in 1..3} \ {None}

\* A step that changes a working board
BoardStep ==
    \/ chessboardBefore' # chessboardBefore
    \/ chessboardAfter' # chessboardAfter
    \/ keepFree' # keepFree

\* C27: a step that changes a working board changes no stored position; a
\* step changes the slots of one move group at most, the group of the call,
\* and leaves every position it does not store as it was; no position of a
\* move without capture holds the placeholder of the captured piece
C27_NoAliasing ==
    [][/\ BoardStep => moveGroups' = moveGroups
       /\ ChangedGroups \subseteq {<<last'.call.kind, last'.call.key>>}
       /\ \A g \in DOMAIN moveGroups : \A slot \in Slots :
              moveGroups[g][slot[1]][slot[2]] # None =>
                  moveGroups'[g][slot[1]][slot[2]] = moveGroups[g][slot[1]][slot[2]]
       /\ \A position \in QuietPositions' : SquaresWith(position, "n") = {}]_vars

\* The placeholder stands on the end square of the working board, a
\* position stored before for the same call of a group of three pieces has
\* the end square empty, and the group of another square is empty
C27_Witness ==
    /\ step[1] = 2
    /\ calls[pc].kind = "square"
    /\ Get(chessboardBefore, calls[pc].endSquare) = "n"
    /\ moveGroups[CurrentGroup][1][1] # None
    /\ Get(moveGroups[CurrentGroup][1][1], calls[pc].endSquare) = ""
    /\ \E g \in DOMAIN moveGroups :
           g[1] = "square" /\ g # CurrentGroup /\ moveGroups[g] = getEmptyMoveGroup

----------------------------------------------------------------------------
(* C28: the attempts of boxInBlackKing that fail *)

\* A working board as placeKingsCheckmate was given it for a slot: with the
\* discovered attacker of the slot on its square
Given(board, slot, piece(_)) ==
    IF last.discovered[slot[2]] = None THEN board
    ELSE Set(board, last.discovered[slot[2]][2], piece(last.discovered[slot[2]][1]))

AttackerPiece(pieceDiscovered) == pieceDiscovered

AttackerKept(pieceDiscovered) == TRUE

\* The squares before the defending king's square, in the order of the
\* scan, on which placeKingsCheckmate has called boxInBlackKing
Attempted(slot, keep, attackedSquaresBefore, attackedSquaresAfter) ==
    {sq \in BoardSquares :
        /\ SquareKey(sq) < SquareKey(BlackKing(slot))
        /\ kingSquareCandidate(sq, last.call.endSquare, keep, MovingPiece = "K",
                               attackedSquaresBefore, attackedSquaresAfter)
        /\ ~isCheckmate(sq, attackedSquaresAfter)
        /\ adjacentAllPlacable(sq, keep, Get(attackedSquaresAfter, sq))}

\* The board after the pass of the scan on the defending king's square,
\* from the board placeKingsCheckmate was given
FreshAttempt(slot, before, after, attackedSquaresAfter) ==
    IF isCheckmate(BlackKing(slot), attackedSquaresAfter)
    THEN Set(before, BlackKing(slot), "k")
    ELSE boxInBlackKing(BlackKing(slot), last.call.endSquare, before, after,
                        attackedSquaresAfter).chessboard

\* The position is the board fresh, but for the attacking king
FreshButKing(slot, before, fresh) ==
    \A sq \in BoardSquares :
        \/ Get(Position(slot), sq) = Get(fresh, sq)
        \/ /\ Get(Position(slot), sq) = "K"
           /\ Get(before, sq) = ""
           /\ MovingPiece # "K"

\* The attempts before the defending king's square have failed and have
\* left the board as it was given, and the position is the one the pass on
\* the king's square makes of the board as given, with the attacking king
AllOrNothing(slot, before, after, keep, attackedSquaresBefore, attackedSquaresAfter) ==
    /\ \A sq \in Attempted(slot, keep, attackedSquaresBefore, attackedSquaresAfter) :
           LET attempt == boxInBlackKing(sq, last.call.endSquare, before, after,
                                         attackedSquaresAfter)
           IN  ~attempt.ok /\ attempt.chessboard = before
    /\ FreshButKing(slot, before, FreshAttempt(slot, before, after, attackedSquaresAfter))

\* The slot was filled in the half of the call that is running: the working
\* boards are those the place function was given, but for the attacker
Filling(slot) == Produced(slot) /\ step[1] = slot[1]

GivenBefore(slot) == Given(chessboardBefore, slot, AttackerPiece)

GivenAfter(slot) == Given(chessboardAfter, slot, AttackerPiece)

GivenKeep(slot) == Given(keepFree, slot, AttackerKept)

\* C28: when boxInBlackKing returns False the board before the move is as
\* it was given, so that a checkmate position holds no bishop, knight, rook
\* or defending king of an attempt that failed
C28_AllOrNothing ==
    \A slot \in CheckmateSlots :
        Filling(slot) =>
            AllOrNothing(slot, GivenBefore(slot), GivenAfter(slot), GivenKeep(slot),
                         getAttackedSquares(GivenBefore(slot)),
                         getAttackedSquares(GivenAfter(slot)))

\* A checkmate position whose defending king is boxed in after an attempt
\* on an earlier square has failed
C28_Witness ==
    \E slot \in CheckmateSlots :
        /\ Filling(slot)
        /\ Attempted(slot, GivenKeep(slot), getAttackedSquares(GivenBefore(slot)),
                     getAttackedSquares(GivenAfter(slot))) # {}
        /\ ~isCheckmate(BlackKing(slot), getAttackedSquares(GivenAfter(slot)))

----------------------------------------------------------------------------
(* C29: the attack field and the pieces of the defending side *)

\* The squares the field of attacked squares marks
MarkedSquares(attackedSquares) == {sq \in BoardSquares : Get(attackedSquares, sq) # None}

\* The squares a white piece of the board attacks, by the rules of chess: a
\* piece of either side ends the line of a rook, bishop or queen
WhiteAttacks(board) ==
    UNION {{sq \in BoardSquares : PieceAttacks(board, Get(board, a), a, sq)} :
              a \in {b \in BoardSquares : White(Get(board, b))}}

\* The squares a knight on the square attacks
KnightAttacks(square) == {sq \in BoardSquares : PieceAttacks(Board(""), "N", square, sq)}

\* The tests of placeWhiteKing, by the rules of chess
KingPlacable(sq, keep, attacked, blackKing) ==
    /\ ~Get(keep, sq)
    /\ sq \notin attacked
    /\ Chebyshev(sq, blackKing) > 2

\* The attacking king stands on the first square, in the order of the scan,
\* that is vacant, not reserved, not attacked by white after the move and
\* outside the box of two squares around the defending king
FirstPlacable(slot, before, keep, attacked) ==
    \A king \in SquaresWith(Position(slot), "K") :
        /\ Get(before, king) = ""
        /\ KingPlacable(king, keep, attacked, BlackKing(slot))
        /\ \A sq \in BoardSquares :
               SquareKey(sq) < SquareKey(king) =>
                   ~KingPlacable(sq, keep, attacked, BlackKing(slot))

\* The boards the place functions compute the fields of attacked squares
\* of: the working boards, with the discovered attacker of a slot
GivenBoards ==
    {board \in {chessboardBefore, chessboardAfter} : board # None}
    \cup {GivenBefore(slot) : slot \in {s \in Slots : Filling(s)}}
    \cup {GivenAfter(slot) : slot \in {s \in Slots : Filling(s)}}

\* C29: the field of attacked squares of a board marks the squares the
\* white pieces attack and no other, the lines of attack ending on the
\* first piece of either side; the attacking king is placed by the tests of
\* placeWhiteKing alone, whatever the placeholder of the captured piece
\* attacks before the move
C29_WhiteAttacksOnly ==
    /\ \A board \in GivenBoards :
           MarkedSquares(getAttackedSquares(board)) = WhiteAttacks(board)
    /\ \A slot \in Slots :
           (Filling(slot) /\ MovingPiece # "K") =>
               FirstPlacable(slot, GivenBefore(slot), GivenKeep(slot),
                             WhiteAttacks(GivenAfter(slot)))

\* A position of a capture whose attacking king stands on a square the
\* placeholder attacks
C29_Witness ==
    \E slot \in {<<2, 1>>, <<2, 2>>, <<2, 3>>} :
        /\ Filling(slot) /\ MovingPiece # "K"
        /\ Get(Position(slot), last.call.endSquare) = "n"
        /\ SquaresWith(Position(slot), "K") \cap KnightAttacks(last.call.endSquare) # {}

====
